---- MODULE Spec2Model ----
(***************************************************************************)
(* A model of the Dildonica front end: the packet decoder, the zone-map    *)
(* parser, the zone remapper and exponential normalizer (process_sample),  *)
(* the MIDI gesture translator (MidiProcessor) and the zone configuration  *)
(* codec (DildonicaZoneConfig, read_zone_configs, write_zone_configs).     *)
(*                                                                         *)
(* Conventions.                                                            *)
(*  - A Rust array or slice is a TLA+ sequence; the Rust index i is the    *)
(*    TLA+ index i + 1.  Zone indices, bytes and lengths keep their Rust   *)
(*    values.                                                              *)
(*  - Option<T> is a record [some, v]; None is [some |-> FALSE, v |-> 0].  *)
(*  - An f64 is an exact rational <<n, d>> with d >= 0 in lowest terms;    *)
(*    <<1, 0>> and <<-1, 0>> are +infinity and -infinity, <<0, 0>> is NaN. *)
(*    The rounding of binary floating point is not modelled: every         *)
(*    arithmetic step is exact.                                            *)
(*  - A u8 sum or product that overflows panics when checked_build holds   *)
(*    and wraps otherwise; both builds are part of the model.              *)
(*                                                                         *)
(* Specifications.                                                         *)
(*  - Spec: main parses the zone map, the event loop handles notifications *)
(*    (decode, process_sample, translate, send to the channel), the        *)
(*    presentation layer drains the channel and switches the method.       *)
(*  - SpecDecode, SpecParse, SpecProcess, SpecMidi: the decoder, the       *)
(*    zone-map choice of main, process_sample and the gesture translator   *)
(*    on their own, over bounded sets of arguments.                        *)
(*  - SpecAverage: process_sample under the identity map with averages of  *)
(*    several alphas.                                                      *)
(*  - SpecRecord, SpecCodec: DildonicaZoneConfig::from_bytes on bounded    *)
(*    buffers, and the configuration arms of the event loop against a      *)
(*    device that holds the configuration bytes.                           *)
(*  - SpecLoop: the event loop as a task: the arms of its select, their   *)
(*    awaits, the notification stream, the three channels and the         *)
(*    presentation layer's requests and edits.                            *)
(*  - SpecMpe: the calls of the MPE keyboard (midi_mpe.rs).                *)
(*  - SpecScale: the translator in Notes mode over every scale.            *)
(*  - SpecEnd: SpecLoop with the end of the notification stream, the       *)
(*    closing of the presentation layer and the end of the process.        *)
(*  - SpecWait: the loop's ends with a presentation layer that sends no    *)
(*    request, under weak fairness of the task's steps.                    *)
(*  - SpecHeadless: the loop in headless mode with a channel nearly full,  *)
(*    under weak fairness of the forward.                                  *)
(*  - A u32 is a pair <<high, low>> of 16-bit halves.                      *)
(***************************************************************************)
EXTENDS Integers, Sequences, FiniteSets, TLC

VARIABLES
    data,           \* the byte buffer handed to Sample::from_bytes
    decoded,        \* the Result<Sample, SampleError> it returned
    map_case,       \* how the --map argument was written: its elements' texts and meanings
    args_map,       \* Args::map, the Option<String> of the --map argument
    zone_map,       \* main's zone_map: Result<[usize; NUM_ZONES], SampleError>
    zone_averages,  \* main's zone_averages: [ExponentialAverage; NUM_ZONES]
    processed,      \* the ProcessedSample of the last process_sample call, if any
    readings,       \* per logical zone, how many readings its normalizer has received
    note_states,    \* MidiProcessor::note_states
    sounding,       \* per zone, the note number of the last Note-On handed to the output
    midi_config,    \* app_config.midi, shared with the presentation layer
    midi_call,      \* the last translation call: its arguments and its outcome
    scenario,       \* progress of the calls on ScenarioZone along ScenarioMagnitudes
    checked_build,  \* whether the build panics on integer overflow (else it wraps)
    tx_queue,       \* the ProcessedSamples in the channel to the presentation layer
    loop_state,     \* "running" while the event loop runs, "exited" after it
    calls,          \* how many packets (or direct calls) have been handled
    zone_configs,   \* main's zone_configs: the shared [DildonicaZoneConfig; NUM_ZONES]
    device_data,    \* the bytes the device holds in its configuration characteristic
    config_call,    \* the last call of the configuration codec: its input and its result
    stream,         \* notification_stream: the payloads delivered and not yet taken
    config_rx,      \* the arrays sent on config_tx and not yet received
    config_read_rx, \* the read requests sent on config_read_tx and not yet received
    in_progress,    \* the reactions of the event loop that have begun and not ended
    log,            \* what has happened so far: arrivals, translations, forwards, requests
    keyboard,       \* the MPEKeyboard: member channels, both maps and the cursor
    key_call,       \* the last call of the keyboard: its arguments, the keyboard before, its messages
    key_log,        \* how many key presses and how many calls the keyboard has had
    stream_open,    \* the notification stream has not ended
    rx_open,        \* the presentation layer, with its receiver and its senders, exists
    held            \* the locks the event-loop task holds while it is suspended

decodeVars == <<data, decoded>>

parseVars == <<map_case, args_map, zone_map>>

processVars == <<zone_averages, processed, readings>>

midiVars == <<note_states, sounding, midi_config, midi_call, scenario, checked_build>>

loopVars == <<tx_queue, loop_state, calls>>

configVars == <<zone_configs, device_data, config_call>>

taskVars == <<stream, config_rx, config_read_rx, in_progress, log>>

mpeVars == <<keyboard, key_call, key_log>>

linkVars == <<stream_open, rx_open, held>>

vars == <<decodeVars, parseVars, processVars, midiVars, loopVars, configVars, taskVars, mpeVars,
          linkVars>>

(***************************************************************************)
(* Program constants                                                       *)
(***************************************************************************)
NUM_ZONES == 8

(***************************************************************************)
(* Bounds of the model                                                     *)
(***************************************************************************)
\* longest byte buffer handed to the packet decoder
MaxPacketLen == 10

\* direct calls of process_sample in a run of SpecProcess
MaxCalls == 2

\* packets delivered to the event loop in a run of Spec
MaxPackets == 3

\* readings delivered for one logical zone in a run of Spec
MaxReadings == 2

\* readings given to one average in a run of SpecAverage
MaxUpdates == 3

\* notifications delivered and configuration requests made in a run of SpecLoop
MaxArrivals == 2

MaxRequests == 2

\* calls of the MPE keyboard in a run of SpecMpe
MaxKeyCalls == 3

(***************************************************************************)
(* Option<T>                                                               *)
(***************************************************************************)
None == [some |-> FALSE, v |-> 0]

Some(x) == [some |-> TRUE, v |-> x]

\* None of an Option<String> and of an Option<f64>
NoString == [some |-> FALSE, v |-> <<>>]

NoF64 == [some |-> FALSE, v |-> <<0, 1>>]

(***************************************************************************)
(* f64 arithmetic on exact rationals <<n, d>>                              *)
(***************************************************************************)
Abs(i) == IF i < 0 THEN 0 - i ELSE i

Sign(i) == IF i < 0 THEN 0 - 1 ELSE IF i > 0 THEN 1 ELSE 0

RECURSIVE GCD(_, _)
GCD(a, b) == IF b = 0 THEN a ELSE GCD(b, a % b)

\* the f64 n/d in lowest terms; n/0 is an infinity, or NaN when n = 0
F64(n, d) ==
    IF d = 0 THEN <<Sign(n), 0>>
    ELSE LET g == GCD(Abs(n), Abs(d))
         IN  <<Sign(d) * (n \div g), Abs(d) \div g>>

F64Int(i) == <<i, 1>>

PosInf == <<1, 0>>

NegInf == <<0 - 1, 0>>

NaN == <<0, 0>>

IsNaN(x) == x = NaN

IsFinite(x) == x[2] # 0

\* x + y; the common denominator is the least common multiple
F64Add(x, y) ==
    IF x[2] = 0 \/ y[2] = 0
    THEN (IF IsNaN(x) \/ IsNaN(y) \/ (x[2] = 0 /\ y[2] = 0 /\ x # y) THEN NaN
          ELSE IF x[2] = 0 THEN x ELSE y)
    ELSE LET g == GCD(x[2], y[2])
         IN  F64(x[1] * (y[2] \div g) + y[1] * (x[2] \div g), (x[2] \div g) * y[2])

F64Neg(x) == <<0 - x[1], x[2]>>

F64Sub(x, y) == F64Add(x, F64Neg(y))

\* x * y, cancelling across the fraction before multiplying
F64Mul(x, y) ==
    LET g1 == GCD(Abs(x[1]), y[2])
        g2 == GCD(Abs(y[1]), x[2])
    IN  IF x[2] = 0 \/ y[2] = 0 THEN F64(Sign(x[1]) * Sign(y[1]), 0)
        ELSE F64((x[1] \div g1) * (y[1] \div g2), (x[2] \div g2) * (y[2] \div g1))

\* x / y: a finite non-zero x over zero is an infinity, 0/0 and inf/inf are NaN
F64Div(x, y) ==
    IF IsNaN(x) \/ IsNaN(y) THEN NaN
    ELSE IF y[2] = 0 THEN (IF x[2] = 0 THEN NaN ELSE <<0, 1>>)
    ELSE IF y[1] = 0 THEN F64(x[1], 0)
    ELSE F64Mul(x, <<Sign(y[1]) * y[2], Abs(y[1])>>)

F64Abs(x) == <<Abs(x[1]), x[2]>>

\* a/b > c/d for a, c >= 0 and b, d > 0, by comparing the integer parts and
\* then the reciprocals of the fractional parts (no product is formed)
RECURSIVE RatioGt(_, _, _, _)
RatioGt(a, b, c, d) ==
    LET qa == a \div b
        qc == c \div d
        ra == a % b
        rc == c % d
    IN  IF qa # qc THEN qa > qc
        ELSE IF ra = 0 THEN FALSE
        ELSE IF rc = 0 THEN TRUE
        ELSE RatioGt(d, rc, b, ra)

\* x > y as f64 compares: false when either is NaN
F64Gt(x, y) ==
    IF IsNaN(x) \/ IsNaN(y) THEN FALSE
    ELSE IF x[2] = 0 \/ y[2] = 0
         THEN (IF x[2] = 0 /\ y[2] = 0 THEN x[1] > y[1]
               ELSE IF x[2] = 0 THEN x[1] > 0 ELSE y[1] < 0)
    ELSE IF x[1] >= 0 /\ y[1] >= 0 THEN RatioGt(x[1], x[2], y[1], y[2])
    ELSE IF x[1] >= 0 THEN TRUE
    ELSE IF y[1] >= 0 THEN FALSE
    ELSE RatioGt(0 - y[1], y[2], 0 - x[1], x[2])

\* x * s >= q, for a slope s > 0 and a finite q >= 0; no product is formed.
\* A NaN product compares false.
F64MulGe(x, s, q) ==
    IF IsNaN(x) THEN FALSE
    ELSE IF x[2] = 0 THEN x[1] > 0
    ELSE ~F64Gt(F64Div(q, s), x)

\* the largest k in lo..hi for which x * s >= Threshold(k) (it holds at lo and
\* is monotone in k), found by bisection
RECURSIVE LargestStep(_, _, _, _, _)
LargestStep(lo, hi, x, s, half) ==
    IF lo = hi THEN lo
    ELSE LET mid == (lo + hi + 1) \div 2
             q == IF half THEN <<2 * mid - 1, 254>> ELSE <<mid, 1>>
         IN  IF F64MulGe(x, s, q) THEN LargestStep(mid, hi, x, s, half)
             ELSE LargestStep(lo, mid - 1, x, s, half)

\* (127.0 * f64::min(x * s, 1.0)).round() as u8, for x >= 0 and s > 0: the
\* largest k <= 127 with x * s >= (2k - 1)/254; f64::min ignores a NaN operand
Round127OfMin1(x, s) ==
    IF IsNaN(x) THEN 127 ELSE LargestStep(0, 127, x, s, TRUE)

\* f64::min(x * s, 127.0) as u8, for x >= 0 and s > 0: the largest k <= 127
\* with x * s >= k
TruncOfMin127(x, s) ==
    IF IsNaN(x) THEN 127 ELSE LargestStep(0, 127, x, s, FALSE)

(***************************************************************************)
(* u8 arithmetic: an overflowing sum or product panics in a build with     *)
(* overflow checks and wraps in a build without; Panicked marks the panic  *)
(***************************************************************************)
Panicked == 0 - 1

u8_add(a, b, overflow_checks) ==
    IF a = Panicked \/ b = Panicked THEN Panicked
    ELSE IF a + b > 255 THEN (IF overflow_checks THEN Panicked ELSE (a + b) % 256)
    ELSE a + b

u8_mul(a, b, overflow_checks) ==
    IF a = Panicked \/ b = Panicked THEN Panicked
    ELSE IF a * b > 255 THEN (IF overflow_checks THEN Panicked ELSE (a * b) % 256)
    ELSE a * b

\* usize as u8
as_u8(n) == n % 256

(***************************************************************************)
(* MIDI gesture translator: MusicalScale, MidiConfig, MidiProcessor        *)
(***************************************************************************)
intervals(scale) ==
    CASE scale = "Chromatic"  -> <<0, 1, 2, 3, 4, 5, 6, 7, 8, 9, 10, 11>>
      [] scale = "Major"      -> <<0, 2, 4, 5, 7, 9, 11>>
      [] scale = "Minor"      -> <<0, 2, 3, 5, 7, 8, 10>>
      [] scale = "Pentatonic" -> <<0, 2, 4, 7, 9>>
      [] scale = "Blues"      -> <<0, 3, 5, 6, 7, 10>>
      [] scale = "Dorian"     -> <<0, 2, 3, 5, 7, 9, 10>>
      [] scale = "Mixolydian" -> <<0, 2, 4, 5, 7, 9, 10>>
      [] scale = "Lydian"     -> <<0, 2, 4, 6, 7, 9, 11>>
      [] scale = "Phrygian"   -> <<0, 1, 3, 5, 7, 8, 10>>
      [] scale = "Locrian"    -> <<0, 1, 3, 5, 6, 8, 10>>
      [] scale = "WholeTone"  -> <<0, 2, 4, 6, 8, 10>>
      [] scale = "Diminished" -> <<0, 2, 3, 5, 6, 8, 9, 11>>

all_scales ==
    {"Chromatic", "Major", "Minor", "Pentatonic", "Blues", "Dorian", "Mixolydian",
     "Lydian", "Phrygian", "Locrian", "WholeTone", "Diminished"}

\* mutant: the octave of the zone is not added
map_zone_to_note_no_octave(scale, base_note, zone, overflow_checks) ==
    LET scale_len == Len(intervals(scale))
        scale_index == zone % scale_len
        sum == u8_add(base_note, intervals(scale)[scale_index + 1], overflow_checks)
    IN  IF scale_len = 0 THEN base_note
        ELSE IF sum = Panicked THEN Panicked
        ELSE IF sum < 127 THEN sum ELSE 127

\* MusicalScale::map_zone_to_note; Panicked when a u8 operation overflows in a
\* build with overflow checks
map_zone_to_note(scale, base_note, zone, overflow_checks) ==
    LET scale_len == Len(intervals(scale))
        octave == zone \div scale_len
        scale_index == zone % scale_len
        note_offset == u8_add(intervals(scale)[scale_index + 1],
                              u8_mul(as_u8(octave), 12, overflow_checks),
                              overflow_checks)
        sum == u8_add(base_note, note_offset, overflow_checks)
    IN  IF scale_len = 0 THEN base_note
        ELSE IF sum = Panicked THEN Panicked
        ELSE IF sum < 127 THEN sum ELSE 127

\* MidiConfig::default()
DefaultMidiConfig ==
    [method |-> "ControlChange",
     control_change_config |-> [base_control_number |-> 41, control_slope |-> <<20, 1>>],
     note_config |-> [base_note |-> 60, threshold |-> <<1, 10>>,
                      velocity_slope |-> <<100, 1>>, scale |-> "Chromatic"]]

\* the status bytes of the four messages
CC_MSG == 176

NOTE_ON_MSG == 144

NOTE_OFF_MSG == 128

KEY_PRESSURE_MSG == 160

\* The outcome of a translation call: the note states after it, the messages
\* handed to conn_out.send during it, and how it ended ("Ok", "Err" when the
\* send failed, "Panic").
Outcome(states, sent, result) ==
    [note_states |-> states, sent |-> sent, result |-> result]

\* conn_out.send(msg)?: the collaborator accepts the message or reports an error
SendResult(send_ok) == IF send_ok THEN "Ok" ELSE "Err"

\* mutant: the sign of the normalized value is kept, a negative value clamps to 0
MidiProcessor_send_control_change_no_abs(states, zone, normalized_value, config, send_ok, overflow_checks) ==
    LET midi_control_value ==
            IF F64Gt(<<0, 1>>, normalized_value) THEN 0
            ELSE Round127OfMin1(normalized_value, config.control_slope)
        midi_control_channel ==
            u8_add(as_u8(zone), config.base_control_number, overflow_checks)
    IN  IF midi_control_channel = Panicked THEN Outcome(states, <<>>, "Panic")
        ELSE Outcome(states,
                     << <<CC_MSG, midi_control_channel, midi_control_value>> >>,
                     SendResult(send_ok))

\* MidiProcessor::send_control_change (with the free function of the same name)
MidiProcessor_send_control_change(states, zone, normalized_value, config, send_ok, overflow_checks) ==
    LET midi_control_value ==
            Round127OfMin1(F64Abs(normalized_value), config.control_slope)
        midi_control_channel ==
            u8_add(as_u8(zone), config.base_control_number, overflow_checks)
    IN  IF midi_control_channel = Panicked THEN Outcome(states, <<>>, "Panic")
        ELSE Outcome(states,
                     << <<CC_MSG, midi_control_channel, midi_control_value>> >>,
                     SendResult(send_ok))

\* the velocity of send_note: f64::min(magnitude * velocity_slope, 127.0) as u8,
\* then .max(1)
NoteVelocity(magnitude, config) ==
    LET velocity == TruncOfMin127(magnitude, config.velocity_slope)
    IN  IF velocity < 1 THEN 1 ELSE velocity

\* mutant: the note state is not consulted above the threshold: Note-On is
\* sent again while the note is sounding, never Key-Pressure
MidiProcessor_send_note_no_aftertouch(states, zone, normalized_value, config, send_ok, overflow_checks) ==
    IF zone >= 8 THEN Outcome(states, <<>>, "Ok")
    ELSE
    LET magnitude == F64Abs(normalized_value)
        note_number ==
            map_zone_to_note(config.scale, config.base_note, zone, overflow_checks)
    IN  IF note_number = Panicked THEN Outcome(states, <<>>, "Panic")
        ELSE IF F64Gt(magnitude, config.threshold)
        THEN Outcome(IF send_ok THEN [states EXCEPT ![zone + 1] = TRUE] ELSE states,
                     << <<NOTE_ON_MSG, note_number, NoteVelocity(magnitude, config)>> >>,
                     SendResult(send_ok))
        ELSE IF states[zone + 1]
        THEN Outcome(IF send_ok THEN [states EXCEPT ![zone + 1] = FALSE] ELSE states,
                     << <<NOTE_OFF_MSG, note_number, 0>> >>, SendResult(send_ok))
        ELSE Outcome(states, <<>>, "Ok")

\* mutant: the note state is set before the message is sent and stays set
\* when the send fails
MidiProcessor_send_note_state_first(states, zone, normalized_value, config, send_ok, overflow_checks) ==
    IF zone >= 8 THEN Outcome(states, <<>>, "Ok")
    ELSE
    LET magnitude == F64Abs(normalized_value)
        note_number ==
            map_zone_to_note(config.scale, config.base_note, zone, overflow_checks)
    IN  IF note_number = Panicked THEN Outcome(states, <<>>, "Panic")
        ELSE IF F64Gt(magnitude, config.threshold)
        THEN LET velocity == NoteVelocity(magnitude, config)
             IN  IF ~states[zone + 1]
                 THEN Outcome([states EXCEPT ![zone + 1] = TRUE],
                              << <<NOTE_ON_MSG, note_number, velocity>> >>,
                              SendResult(send_ok))
                 ELSE Outcome(states,
                              << <<KEY_PRESSURE_MSG, note_number, velocity>> >>,
                              SendResult(send_ok))
        ELSE IF states[zone + 1]
        THEN Outcome([states EXCEPT ![zone + 1] = FALSE],
                     << <<NOTE_OFF_MSG, note_number, 0>> >>, SendResult(send_ok))
        ELSE Outcome(states, <<>>, "Ok")

\* MidiProcessor::send_note (with send_note_on, send_note_off, send_key_pressure)
MidiProcessor_send_note(states, zone, normalized_value, config, send_ok, overflow_checks) ==
    IF zone >= 8 THEN Outcome(states, <<>>, "Ok")
    ELSE
    LET magnitude == F64Abs(normalized_value)
        note_number ==
            map_zone_to_note(config.scale, config.base_note, zone, overflow_checks)
    IN  IF note_number = Panicked THEN Outcome(states, <<>>, "Panic")
        ELSE IF F64Gt(magnitude, config.threshold)
        THEN LET velocity == NoteVelocity(magnitude, config)
             IN  IF ~states[zone + 1]
                 THEN Outcome(IF send_ok THEN [states EXCEPT ![zone + 1] = TRUE]
                              ELSE states,
                              << <<NOTE_ON_MSG, note_number, velocity>> >>,
                              SendResult(send_ok))
                 ELSE Outcome(states,
                              << <<KEY_PRESSURE_MSG, note_number, velocity>> >>,
                              SendResult(send_ok))
        ELSE IF states[zone + 1]
        THEN Outcome(IF send_ok THEN [states EXCEPT ![zone + 1] = FALSE] ELSE states,
                     << <<NOTE_OFF_MSG, note_number, 0>> >>, SendResult(send_ok))
        ELSE Outcome(states, <<>>, "Ok")

\* the last Note-On per zone after a call on zone that handed sent to the output
SoundingAfter(last, zone, sent) ==
    IF sent # <<>> /\ sent[1][1] = NOTE_ON_MSG
    THEN [last EXCEPT ![zone + 1] = Some(sent[1][2])]
    ELSE last

\* MidiProcessor::process_sample
MidiProcessor_process_sample(states, zone, normalized_value, config, send_ok, overflow_checks) ==
    IF config.method = "ControlChange"
    THEN MidiProcessor_send_control_change(states, zone, normalized_value,
                                           config.control_change_config,
                                           send_ok, overflow_checks)
    ELSE MidiProcessor_send_note(states, zone, normalized_value, config.note_config,
                                 send_ok, overflow_checks)

(***************************************************************************)
(* Packet decoder: Sample::from_bytes                                      *)
(***************************************************************************)
\* i32::from_le_bytes of the four bytes b[from+1 .. from+4] (Rust b[from..from+4])
i32_from_le_bytes(b, from) ==
    LET hi == IF b[from + 4] >= 128 THEN b[from + 4] - 256 ELSE b[from + 4]
    IN  hi * 16777216 + b[from + 3] * 65536 + b[from + 2] * 256 + b[from + 1]

\* i32::to_le_bytes: the four bytes that encode a signed 32-bit value
i32_to_le_bytes(v) ==
    <<v % 256, (v \div 256) % 256, (v \div 65536) % 256, (v \div 16777216) % 256>>

\* Result<Sample, SampleError>: err = "Ok" carries the Sample's three fields
SampleOk(timestamp, zone, value) ==
    [err |-> "Ok", timestamp |-> timestamp, zone |-> zone, value |-> value]

SampleErr(e) == [err |-> e, timestamp |-> 0, zone |-> 0, value |-> None]

\* the result of a call that has not been made yet
NotCalled == SampleErr("NotCalled")

\* mutant: the packet is taken to be 8 bytes long, the zone its last byte
Sample_from_bytes_len8(d) ==
    IF Len(d) < 8 THEN SampleErr("DataTooShort")
    ELSE LET timestamp == i32_from_le_bytes(d, 0)
             value == i32_from_le_bytes(d, 4)
             zone == d[8]
         IN  IF zone >= NUM_ZONES THEN SampleErr("InvalidZone")
             ELSE SampleOk(timestamp, zone, IF value = 0 THEN None ELSE Some(value))

\* mutant: the zone check is off by one (zone > NUM_ZONES)
Sample_from_bytes_zone_gt(d) ==
    IF Len(d) < 9 THEN SampleErr("DataTooShort")
    ELSE LET timestamp == i32_from_le_bytes(d, 0)
             value == i32_from_le_bytes(d, 4)
             zone == d[9]
         IN  IF zone > NUM_ZONES THEN SampleErr("InvalidZone")
             ELSE SampleOk(timestamp, zone, IF value = 0 THEN None ELSE Some(value))

\* mutant: the 'no reading' sentinel is tested on the low byte of the value only
Sample_from_bytes_low_byte(d) ==
    IF Len(d) < 9 THEN SampleErr("DataTooShort")
    ELSE LET timestamp == i32_from_le_bytes(d, 0)
             value == i32_from_le_bytes(d, 4)
             zone == d[9]
         IN  IF zone >= NUM_ZONES THEN SampleErr("InvalidZone")
             ELSE SampleOk(timestamp, zone, IF d[5] = 0 THEN None ELSE Some(value))

Sample_from_bytes(d) ==
    IF Len(d) < 9 THEN SampleErr("DataTooShort")
    ELSE LET timestamp == i32_from_le_bytes(d, 0)
             value == i32_from_le_bytes(d, 4)
             zone == d[9]
         IN  IF zone >= NUM_ZONES THEN SampleErr("InvalidZone")
             ELSE SampleOk(timestamp, zone, IF value = 0 THEN None ELSE Some(value))

(***************************************************************************)
(* Zone configuration codec: DildonicaZoneConfig, read_zone_configs,       *)
(* write_zone_configs.  A u32 is the pair <<hi, lo>> of its 16-bit halves, *)
(* of value hi * 65536 + lo.                                               *)
(***************************************************************************)
SIZE == 20

DildonicaZoneConfig(enabled, midi_control, cycle_count_begin, cycle_count_end, comp_thresh_lo, comp_thresh_hi) ==
    [enabled |-> enabled, midi_control |-> midi_control,
     cycle_count_begin |-> cycle_count_begin, cycle_count_end |-> cycle_count_end,
     comp_thresh_lo |-> comp_thresh_lo, comp_thresh_hi |-> comp_thresh_hi]

\* the u32 of a number below 2^31
U32(n) == <<n \div 65536, n % 65536>>

\* DildonicaZoneConfig::default()
DildonicaZoneConfig_default ==
    DildonicaZoneConfig(TRUE, 0, U32(1000), U32(10000), U32(100), U32(4000))

\* u32::to_le_bytes
u32_to_le_bytes(v) == <<v[2] % 256, v[2] \div 256, v[1] % 256, v[1] \div 256>>

\* u32::from_le_bytes of the four bytes b[from+1 .. from+4] (Rust b[from..from+4])
u32_from_le_bytes(b, from) ==
    <<b[from + 4] * 256 + b[from + 3], b[from + 2] * 256 + b[from + 1]>>

\* DildonicaZoneConfig::to_bytes
DildonicaZoneConfig_to_bytes(c) ==
    <<IF c.enabled THEN 1 ELSE 0, c.midi_control, 0, 0>>
    \o u32_to_le_bytes(c.cycle_count_begin)
    \o u32_to_le_bytes(c.cycle_count_end)
    \o u32_to_le_bytes(c.comp_thresh_lo)
    \o u32_to_le_bytes(c.comp_thresh_hi)

\* Result<DildonicaZoneConfig, SampleError>
ConfigOk(c) == [err |-> "Ok", config |-> c]

ConfigErr(e) == [err |-> e, config |-> DildonicaZoneConfig_default]

\* mutant: the fields are read from byte 2 on, as if the record had no padding
DildonicaZoneConfig_from_bytes_unpadded(bytes) ==
    IF Len(bytes) < SIZE THEN ConfigErr("DataTooShort")
    ELSE ConfigOk(DildonicaZoneConfig(bytes[1] # 0, bytes[2],
                                      u32_from_le_bytes(bytes, 2),
                                      u32_from_le_bytes(bytes, 6),
                                      u32_from_le_bytes(bytes, 10),
                                      u32_from_le_bytes(bytes, 14)))

\* DildonicaZoneConfig::from_bytes
DildonicaZoneConfig_from_bytes(bytes) ==
    IF Len(bytes) < SIZE THEN ConfigErr("DataTooShort")
    ELSE ConfigOk(DildonicaZoneConfig(bytes[1] # 0, bytes[2],
                                      u32_from_le_bytes(bytes, 4),
                                      u32_from_le_bytes(bytes, 8),
                                      u32_from_le_bytes(bytes, 12),
                                      u32_from_le_bytes(bytes, 16)))

\* Result<[DildonicaZoneConfig; NUM_ZONES], SampleError>
ConfigsOk(configs) == [err |-> "Ok", configs |-> configs]

ConfigsErr(e) == [err |-> e, configs |-> <<>>]

\* the result of device.read or device.write: the transport's answer
TransportOk(value) == [err |-> "Ok", value |-> value]

TransportErr == [err |-> "BleError", value |-> <<>>]

\* read_zone_configs: the for loop, from record i on
RECURSIVE ReadLoop(_, _, _)
ReadLoop(value, i, configs) ==
    IF i >= NUM_ZONES THEN ConfigsOk(configs)
    ELSE LET start == i * SIZE
             end == start + SIZE
             one == DildonicaZoneConfig_from_bytes(SubSeq(value, start + 1, end))
         IN  IF one.err # "Ok" THEN ConfigsErr(one.err)
             ELSE ReadLoop(value, i + 1, [configs EXCEPT ![i + 1] = one.config])

\* mutant: a buffer that is long enough is accepted, its first records decoded
read_zone_configs_at_least(read) ==
    IF read.err # "Ok" THEN ConfigsErr(read.err)
    ELSE IF Len(read.value) < SIZE * NUM_ZONES THEN ConfigsErr("DataTooShort")
    ELSE ReadLoop(read.value, 0, [k \in 1..NUM_ZONES |-> DildonicaZoneConfig_default])

\* read_zone_configs, given what device.read(config_char).await returned
read_zone_configs(read) ==
    IF read.err # "Ok" THEN ConfigsErr(read.err)
    ELSE IF Len(read.value) # SIZE * NUM_ZONES THEN ConfigsErr("DataTooShort")
    ELSE ReadLoop(read.value, 0, [k \in 1..NUM_ZONES |-> DildonicaZoneConfig_default])

\* write_zone_configs: the for loop, data after the records from i on are added
RECURSIVE WriteLoop(_, _, _)
WriteLoop(configs, i, bytes) ==
    IF i >= Len(configs) THEN bytes
    ELSE WriteLoop(configs, i + 1, bytes \o DildonicaZoneConfig_to_bytes(configs[i + 1]))

\* mutant: the buffer starts with a byte that holds the number of records
write_zone_configs_data_prefixed(configs) == WriteLoop(configs, 0, <<Len(configs)>>)

\* write_zone_configs: the buffer handed to device.write
write_zone_configs_data(configs) == WriteLoop(configs, 0, <<>>)

\* write_zone_configs, given whether device.write(..).await succeeded
write_zone_configs(configs, write_ok) == IF write_ok THEN "Ok" ELSE "BleError"

(***************************************************************************)
(* Exponential normalizer: ExponentialAverage                              *)
(***************************************************************************)
EXPONENTIAL_AVERAGE_ALPHA == <<1, 1000>>

\* ExponentialAverage::new (alpha is in [0, 1] wherever it is called)
ExponentialAverage_new(alpha) == [alpha |-> alpha, current_average |-> NoF64]

\* mutant: the first update is smoothed like the later ones, from an average of 0
ExponentialAverage_update_from_zero(ea, new_value) ==
    LET avg == IF ea.current_average.some THEN ea.current_average.v ELSE <<0, 1>>
    IN  [ea EXCEPT !.current_average =
            [some |-> TRUE,
             v |-> F64Add(F64Mul(avg, F64Sub(F64Int(1), ea.alpha)),
                          F64Mul(new_value, ea.alpha))]]

\* ExponentialAverage::update
ExponentialAverage_update(ea, new_value) ==
    [ea EXCEPT !.current_average =
        [some |-> TRUE,
         v |-> IF ~ea.current_average.some THEN new_value
               ELSE F64Add(F64Mul(ea.current_average.v, F64Sub(F64Int(1), ea.alpha)),
                           F64Mul(new_value, ea.alpha))]]

\* ExponentialAverage::get_average
ExponentialAverage_get_average(ea) == ea.current_average

(***************************************************************************)
(* Zone remapper and per-packet processing: process_sample                 *)
(***************************************************************************)
\* mutant: the timestamp is not carried through
ProcessedSample_unstamped(timestamp, zone, value_raw, value_normalized) ==
    [timestamp |-> 0, zone |-> zone,
     value_raw |-> value_raw, value_normalized |-> value_normalized]

ProcessedSample(timestamp, zone, value_raw, value_normalized) ==
    [timestamp |-> timestamp, zone |-> zone,
     value_raw |-> value_raw, value_normalized |-> value_normalized]

NoProcessed == [some |-> FALSE, v |-> ProcessedSample(0, 0, <<0, 1>>, <<0, 1>>)]

\* mutant: the map is indexed by the physical zone (ZONE_MAP[physical_zone])
RemapZoneDirect(zmap, physical_zone) == zmap[physical_zone + 1]

\* zone_map.iter().position(|&x| x == sample.zone).unwrap_or(sample.zone)
RemapZone(zmap, physical_zone) ==
    IF \E k \in 1..Len(zmap) : zmap[k] = physical_zone
    THEN (CHOOSE k \in 1..Len(zmap) :
            /\ zmap[k] = physical_zone
            /\ \A j \in 1..(k - 1) : zmap[j] # physical_zone) - 1
    ELSE physical_zone

\* process_sample: the ProcessedSample and the zone averages after the call
\* mutant: a sample without a reading updates the average with 0.0
process_sample_absent_updates(sample, averages, zmap) ==
    LET zone == RemapZone(zmap, sample.zone)
        raw == IF sample.value.some THEN F64Int(sample.value.v) ELSE <<0, 1>>
        updated == [averages EXCEPT ![zone + 1] = ExponentialAverage_update(@, raw)]
        average == ExponentialAverage_get_average(updated[zone + 1]).v
    IN  [processed |-> ProcessedSample(sample.timestamp, zone, raw,
                                       F64Div(F64Sub(raw, average), average)),
         zone_averages |-> updated]

process_sample(sample, averages, zmap) ==
    LET zone == RemapZone(zmap, sample.zone)
        raw == F64Int(sample.value.v)
        updated == [averages EXCEPT ![zone + 1] = ExponentialAverage_update(@, raw)]
        got == ExponentialAverage_get_average(updated[zone + 1])
        average == IF got.some THEN got.v ELSE <<0, 1>>
        normalized == F64Div(F64Sub(raw, average), average)
    IN  IF sample.value.some
        THEN [processed |-> ProcessedSample(sample.timestamp, zone, raw, normalized),
              zone_averages |-> updated]
        ELSE [processed |-> ProcessedSample(sample.timestamp, zone, <<0, 1>>, <<0, 1>>),
              zone_averages |-> averages]

\* the per-zone count of readings after a call that gave logical zone z
ReadingsAfter(counts, sample, z) ==
    IF sample.value.some THEN [counts EXCEPT ![z + 1] = @ + 1] ELSE counts

(***************************************************************************)
(* Zone-map parser: parse_zone_map, and main's choice of the zone map      *)
(* A string is a sequence of one-character strings.                        *)
(***************************************************************************)
\* Result<[usize; NUM_ZONES], SampleError>; msg names the message's format string
ZoneMapOk(m) == [err |-> "Ok", msg |-> "", map |-> m]

ZoneMapErr(msg) == [err |-> "InvalidZoneMap", msg |-> msg, map |-> <<>>]

ZoneMapNotParsed == [err |-> "NotCalled", msg |-> "", map |-> <<>>]

\* str::split(','): the pieces between the commas, empty pieces included
RECURSIVE SplitFrom(_, _, _)
SplitFrom(str, i, cur) ==
    IF i > Len(str) THEN <<cur>>
    ELSE IF str[i] = "," THEN <<cur>> \o SplitFrom(str, i + 1, <<>>)
    ELSE SplitFrom(str, i + 1, Append(cur, str[i]))

split(str) == SplitFrom(str, 1, <<>>)

IsWhitespace(c) == c \in {" ", "\t"}

\* str::trim: leading and trailing whitespace removed
RECURSIVE trim_start(_)
trim_start(p) ==
    IF p # <<>> /\ IsWhitespace(Head(p)) THEN trim_start(Tail(p)) ELSE p

RECURSIVE trim_end(_)
trim_end(p) ==
    IF p # <<>> /\ IsWhitespace(p[Len(p)]) THEN trim_end(SubSeq(p, 1, Len(p) - 1)) ELSE p

trim(p) == trim_end(trim_start(p))

DigitChars == <<"0", "1", "2", "3", "4", "5", "6", "7", "8", "9">>

IsDigit(c) == \E k \in 1..10 : DigitChars[k] = c

DigitValue(c) == (CHOOSE k \in 1..10 : DigitChars[k] = c) - 1

RECURSIVE DigitsValue(_, _)
DigitsValue(p, acc) ==
    IF p = <<>> THEN acc ELSE DigitsValue(Tail(p), acc * 10 + DigitValue(Head(p)))

\* str::parse::<usize>: an optional '+', then one or more decimal digits
parse_usize(p) ==
    IF p = <<>> THEN None
    ELSE IF Head(p) \in {"+", "-"} /\ Len(p) = 1 THEN None
    ELSE LET digits == IF Head(p) = "+" THEN Tail(p) ELSE p
         IN  IF \A k \in 1..Len(digits) : IsDigit(digits[k])
             THEN Some(DigitsValue(digits, 0))
             ELSE None

\* the loop of parse_zone_map over parts[i..], with zone_map and used_zones so far
RECURSIVE ParseLoop(_, _, _, _)
ParseLoop(parts, i, zmap, used_zones) ==
    IF i >= Len(parts) THEN ZoneMapOk(zmap)
    ELSE LET zone == parse_usize(trim(parts[i + 1]))
         IN  IF ~zone.some THEN ZoneMapErr("Invalid zone number")
             ELSE IF zone.v >= NUM_ZONES THEN ZoneMapErr("out of range")
             ELSE IF used_zones[zone.v + 1] THEN ZoneMapErr("used multiple times")
             ELSE ParseLoop(parts, i + 1,
                            [zmap EXCEPT ![i + 1] = zone.v],
                            [used_zones EXCEPT ![zone.v + 1] = TRUE])

\* mutant: a zone that was already used is accepted
RECURSIVE ParseLoopNoDup(_, _, _, _)
ParseLoopNoDup(parts, i, zmap, used_zones) ==
    IF i >= Len(parts) THEN ZoneMapOk(zmap)
    ELSE LET zone == parse_usize(trim(parts[i + 1]))
         IN  IF ~zone.some THEN ZoneMapErr("Invalid zone number")
             ELSE IF zone.v >= NUM_ZONES THEN ZoneMapErr("out of range")
             ELSE ParseLoopNoDup(parts, i + 1,
                                 [zmap EXCEPT ![i + 1] = zone.v],
                                 [used_zones EXCEPT ![zone.v + 1] = TRUE])

parse_zone_map_no_dup(map_str) ==
    LET parts == split(map_str)
    IN  IF Len(parts) # NUM_ZONES THEN ZoneMapErr("Expected zones")
        ELSE ParseLoopNoDup(parts, 0, [k \in 1..NUM_ZONES |-> 0],
                            [k \in 1..NUM_ZONES |-> FALSE])

\* mutant: only a missing element fails the count test, elements after the
\* first NUM_ZONES are not looked at
parse_zone_map_at_least(map_str) ==
    LET parts == split(map_str)
    IN  IF Len(parts) < NUM_ZONES THEN ZoneMapErr("Expected zones")
        ELSE ParseLoop(SubSeq(parts, 1, NUM_ZONES), 0, [k \in 1..NUM_ZONES |-> 0],
                       [k \in 1..NUM_ZONES |-> FALSE])

parse_zone_map(map_str) ==
    LET parts == split(map_str)
    IN  IF Len(parts) # NUM_ZONES THEN ZoneMapErr("Expected zones")
        ELSE ParseLoop(parts, 0, [k \in 1..NUM_ZONES |-> 0],
                       [k \in 1..NUM_ZONES |-> FALSE])

\* (0..NUM_ZONES).collect(): the default mapping
DefaultZoneMap == [k \in 1..NUM_ZONES |-> k - 1]

\* main: the zone map is parsed from --map when given, and the default otherwise
MainZoneMap(arg) ==
    IF arg.some THEN parse_zone_map(arg.v) ELSE ZoneMapOk(DefaultZoneMap)

(***************************************************************************)
(* State at start-up                                                       *)
(***************************************************************************)
\* [ExponentialAverage::new(EXPONENTIAL_AVERAGE_ALPHA); NUM_ZONES]
FreshAverages == [k \in 1..NUM_ZONES |-> ExponentialAverage_new(EXPONENTIAL_AVERAGE_ALPHA)]

\* no translation call has been made (since the configuration was last
\* edited); a call is kept with the configuration it was given
NoCall ==
    [called |-> FALSE, config |-> DefaultMidiConfig, zone |-> 0, value |-> <<0, 1>>,
     before |-> [k \in 1..8 |-> FALSE], sent |-> <<>>, result |-> "Ok"]

\* the zone and the magnitudes of the note-mode scenario, and its start
ScenarioZone == 0

ScenarioMagnitudes == << <<1, 20>>, <<1, 5>>, <<3, 10>>, <<1, 20>> >>

ScenarioStart == [step |-> 0, msgs |-> <<>>]

ScenarioOff == [step |-> 0 - 1, msgs |-> <<>>]

\* [DildonicaZoneConfig::default(); NUM_ZONES]
DefaultZoneConfigs == [k \in 1..NUM_ZONES |-> DildonicaZoneConfig_default]

\* no call of the configuration codec has been made
NoConfigCall ==
    [op |-> "none", case |-> "none", configs |-> <<>>, data |-> <<>>,
     result |-> ConfigsErr("NotCalled")]

(***************************************************************************)
(* MPE channel assignment (midi_mpe.rs).  A HashMap<u8, u8> is a function  *)
(* whose domain is the set of its keys.  send_midi_message prints the      *)
(* message; the messages of a call are collected in order.  The            *)
(* configuration messages MPEKeyboard::new sends are not modelled.         *)
(***************************************************************************)
STATUS_NOTE_ON == 144

STATUS_CHANNEL_AFTERTOUCH == 208

\* the u8 operator |
RECURSIVE BitOr(_, _)
BitOr(a, b) ==
    IF a = 0 THEN b
    ELSE IF b = 0 THEN a
    ELSE (IF a % 2 = 1 \/ b % 2 = 1 THEN 1 ELSE 0) + 2 * BitOr(a \div 2, b \div 2)

EmptyMap == [k \in {} |-> 0]

\* HashMap::insert
MapInsert(map, key, value) ==
    [k \in (DOMAIN map) \cup {key} |-> IF k = key THEN value ELSE map[k]]

\* HashMap::remove
MapRemove(map, key) == [k \in (DOMAIN map) \ {key} |-> map[k]]

\* MPEKeyboard::new: the lower zone's member channels are (2..16).collect()
MPEKeyboard_new ==
    [member_channels |-> [i \in 1..14 |-> i + 1],
     active_notes |-> EmptyMap,
     channel_notes |-> EmptyMap,
     next_channel_index |-> 0]

\* mutant: the cursor is not advanced
get_next_channel_stuck(kb) ==
    [channel |-> kb.member_channels[kb.next_channel_index + 1],
     next_channel_index |-> kb.next_channel_index]

get_next_channel(kb) ==
    [channel |-> kb.member_channels[kb.next_channel_index + 1],
     next_channel_index |-> (kb.next_channel_index + 1) % Len(kb.member_channels)]

handle_key_press(kb, note_number, velocity, initial_pressure) ==
    LET next == get_next_channel(kb)
        channel == next.channel
    IN  [keyboard |-> [kb EXCEPT !.next_channel_index = next.next_channel_index,
                                 !.active_notes = MapInsert(@, note_number, channel),
                                 !.channel_notes = MapInsert(@, channel, note_number)],
         channel |-> Some(channel),
         sent |-> << <<BitOr(STATUS_NOTE_ON, channel), note_number, velocity>> >>
                  \o (IF initial_pressure > 0
                      THEN << <<BitOr(STATUS_CHANNEL_AFTERTOUCH, channel), initial_pressure>> >>
                      ELSE <<>>)]

handle_key_release(kb, note_number, release_velocity) ==
    IF note_number \in DOMAIN kb.active_notes
    THEN LET channel == kb.active_notes[note_number]
         IN  [keyboard |-> [kb EXCEPT !.active_notes = MapRemove(@, note_number),
                                      !.channel_notes = MapRemove(@, channel)],
              channel |-> Some(channel),
              sent |-> << <<BitOr(STATUS_NOTE_ON, channel), note_number, 0>> >>]
    ELSE [keyboard |-> kb, channel |-> None, sent |-> <<>>]

\* mutant: a pressure change of an unknown note goes to the master channel
handle_key_pressure_change_master(kb, note_number, new_pressure) ==
    LET channel == IF note_number \in DOMAIN kb.active_notes
                   THEN kb.active_notes[note_number] ELSE 1
    IN  [keyboard |-> kb, channel |-> Some(channel),
         sent |-> << <<BitOr(STATUS_CHANNEL_AFTERTOUCH, channel), new_pressure>> >>]

handle_key_pressure_change(kb, note_number, new_pressure) ==
    IF note_number \in DOMAIN kb.active_notes
    THEN LET channel == kb.active_notes[note_number]
         IN  [keyboard |-> kb, channel |-> Some(channel),
              sent |-> << <<BitOr(STATUS_CHANNEL_AFTERTOUCH, channel), new_pressure>> >>]
    ELSE [keyboard |-> kb, channel |-> None, sent |-> <<>>]

\* no call of the keyboard has been made
NoKeyCall ==
    [op |-> "none", note_number |-> 0, data |-> 0, initial_pressure |-> 0,
     before |-> MPEKeyboard_new, channel |-> None, sent |-> <<>>]

NoKeyLog == [presses |-> 0, calls |-> 0]

\* the stream delivers, the presentation layer exists, no lock is held
LinkIdle ==
    /\ stream_open = TRUE
    /\ rx_open = TRUE
    /\ held = {}

MpeIdle ==
    /\ keyboard = MPEKeyboard_new
    /\ key_call = NoKeyCall
    /\ key_log = NoKeyLog

\* nothing has arrived, nothing was requested, no reaction has begun
NoLog ==
    [arrived |-> 0, translated |-> <<>>, failed |-> <<>>, forwarded |-> <<>>,
     received |-> <<>>, requests |-> 0, transfers |-> 0]

TaskIdle ==
    /\ stream = <<>>
    /\ config_rx = <<>>
    /\ config_read_rx = <<>>
    /\ in_progress = {}
    /\ log = NoLog

ConfigIdle ==
    /\ zone_configs = DefaultZoneConfigs
    /\ device_data = <<>>
    /\ config_call = NoConfigCall

\* the parts of the state a specification does not use keep these values
ParseIdle ==
    /\ map_case = <<>>
    /\ args_map = NoString
    /\ zone_map = ZoneMapNotParsed

ProcessIdle ==
    /\ zone_averages = FreshAverages
    /\ processed = NoProcessed
    /\ readings = [k \in 1..NUM_ZONES |-> 0]

MidiIdle ==
    /\ note_states = [k \in 1..8 |-> FALSE]
    /\ sounding = [k \in 1..8 |-> None]
    /\ midi_config = DefaultMidiConfig
    /\ midi_call = NoCall
    /\ scenario = ScenarioStart
    /\ checked_build = TRUE

LoopIdle ==
    /\ tx_queue = <<>>
    /\ loop_state = "starting"
    /\ calls = 0

(***************************************************************************)
(* The gesture translator on its own: translation calls with arbitrary     *)
(* arguments, interleaved with the presentation layer's edits of the       *)
(* shared configuration                                                    *)
(***************************************************************************)
\* a configuration read from the configuration file: serde accepts every u8
\* and every finite f64 for the fields
FileMidiConfig ==
    [method |-> "Notes",
     control_change_config |-> [base_control_number |-> 250, control_slope |-> <<1, 10>>],
     note_config |-> [base_note |-> 250, threshold |-> <<1, 5>>,
                      velocity_slope |-> <<3, 1>>, scale |-> "Pentatonic"]]

\* AppConfig::load_from_file: the file's configuration, or the default
LoadedMidiConfigs == {DefaultMidiConfig, FileMidiConfig}

TranslateZones == {0, 7, 8}

TranslateValues == {<<1, 20>>, <<1, 5>>, <<3, 10>>, <<0 - 1, 2>>, NegInf}

\* the values the presentation layer's widgets are set to
MethodChoices == {"ControlChange", "Notes"}

ThresholdChoices == {<<1, 10>>, <<1, 5>>}

BaseNoteChoices == {60}

\* the kind of message a call handed to the output, "none" without one
SentKind(sent) ==
    IF sent = <<>> THEN "none"
    ELSE IF sent[1][1] = NOTE_ON_MSG THEN "NoteOn"
    ELSE IF sent[1][1] = NOTE_OFF_MSG THEN "NoteOff"
    ELSE IF sent[1][1] = KEY_PRESSURE_MSG THEN "KeyPressure"
    ELSE "ControlChange"

\* The scenario follows the calls on ScenarioZone from the start: it advances
\* while they are note-mode calls with threshold 0.1 whose magnitudes are
\* ScenarioMagnitudes in order and whose messages are accepted, and is off
\* as soon as a call on that zone departs from this.
ScenarioAfter(sc, zone, value, config, out) ==
    IF zone # ScenarioZone \/ sc.step < 0 \/ sc.step >= Len(ScenarioMagnitudes) THEN sc
    ELSE IF /\ config.method = "Notes"
            /\ config.note_config.threshold = <<1, 10>>
            /\ F64Abs(value) = ScenarioMagnitudes[sc.step + 1]
            /\ out.result = "Ok"
         THEN [step |-> sc.step + 1, msgs |-> Append(sc.msgs, SentKind(out.sent))]
         ELSE ScenarioOff

InitMidi ==
    /\ data = <<>>
    /\ decoded = NotCalled
    /\ ParseIdle
    /\ ProcessIdle
    /\ LoopIdle
    /\ TaskIdle
    /\ MpeIdle
    /\ LinkIdle
    /\ ConfigIdle
    /\ note_states = [k \in 1..8 |-> FALSE]
    /\ sounding = [k \in 1..8 |-> None]
    /\ midi_config \in LoadedMidiConfigs
    /\ midi_call = NoCall
    /\ scenario = ScenarioStart
    /\ checked_build \in BOOLEAN

\* midi_processor.process_sample(&mut midi_device, zone, value, &app_config.midi);
\* a panic ends the task that makes the calls
Translate(zone, value, send_ok) ==
    /\ midi_call.result # "Panic"
    /\ \E out \in {MidiProcessor_process_sample(note_states, zone, value, midi_config,
                                                send_ok, checked_build)} :
           /\ note_states' = out.note_states
           /\ sounding' = SoundingAfter(sounding, zone, out.sent)
           /\ midi_call' = [called |-> TRUE, config |-> midi_config,
                            zone |-> zone, value |-> value,
                            before |-> note_states, sent |-> out.sent,
                            result |-> out.result]
           /\ scenario' = ScenarioAfter(scenario, zone, value, midi_config, out)
    /\ UNCHANGED <<midi_config, checked_build>>
    /\ UNCHANGED <<decodeVars, parseVars, processVars, loopVars, configVars, taskVars, mpeVars, linkVars>>

\* an edit of the shared configuration by the presentation layer; midi_call
\* describes the last call under the present configuration
EditConfig(new_config) ==
    /\ new_config # midi_config
    /\ midi_config' = new_config
    /\ midi_call' = IF midi_call.result = "Panic" THEN midi_call ELSE NoCall
    /\ UNCHANGED <<note_states, sounding, scenario, checked_build>>
    /\ UNCHANGED <<decodeVars, parseVars, processVars, loopVars, configVars, taskVars, mpeVars, linkVars>>

SetMethod(m) == EditConfig([midi_config EXCEPT !.method = m])

SetBaseNote(b) ==
    /\ midi_config.method = "Notes"
    /\ EditConfig([midi_config EXCEPT !.note_config.base_note = b])

SetThreshold(t) ==
    /\ midi_config.method = "Notes"
    /\ EditConfig([midi_config EXCEPT !.note_config.threshold = t])

NextMidi ==
    \/ \E zone \in TranslateZones, value \in TranslateValues, send_ok \in BOOLEAN :
            Translate(zone, value, send_ok)
    \/ \E m \in MethodChoices : SetMethod(m)
    \/ \E b \in BaseNoteChoices : SetBaseNote(b)
    \/ \E t \in ThresholdChoices : SetThreshold(t)

SpecMidi == InitMidi /\ [][NextMidi]_vars

\* C1: in Note mode a zone is a two-state machine, OFF at the start. A call
\* whose message is accepted, with magnitude above the threshold, sends
\* Note-On from OFF (the zone is ON afterwards) and Key-Pressure from ON (it
\* stays ON); with magnitude at or below the threshold it sends Note-Off from
\* ON (the zone is OFF afterwards) and nothing from OFF; no other zone's state
\* changes. With threshold 0.1 the magnitudes 0.05, 0.2, 0.3, 0.05 on one
\* zone give none, Note-On, Key-Pressure, Note-Off.
C1_NoteStateMachine ==
    /\ (/\ midi_call.called
        /\ midi_config.method = "Notes"
        /\ midi_call.zone < 8
        /\ midi_call.result = "Ok")
       => LET z == midi_call.zone + 1
              was_on == midi_call.before[z]
              above == F64Gt(F64Abs(midi_call.value), midi_config.note_config.threshold)
              kind == SentKind(midi_call.sent)
          IN  /\ Len(midi_call.sent) <= 1
              /\ above /\ ~was_on => kind = "NoteOn" /\ note_states[z]
              /\ above /\ was_on => kind = "KeyPressure" /\ note_states[z]
              /\ ~above /\ was_on => kind = "NoteOff" /\ ~note_states[z]
              /\ ~above /\ ~was_on => kind = "none" /\ ~note_states[z]
              /\ \A k \in 1..8 : k # z => note_states[k] = midi_call.before[k]
    /\ scenario.step >= 0
       => scenario.msgs = SubSeq(<<"none", "NoteOn", "KeyPressure", "NoteOff">>,
                                 1, scenario.step)

\* the four calls of the scenario have been made, the note has sounded and ended
C1_Witness ==
    /\ scenario.step = 4
    /\ midi_call.called
    /\ SentKind(midi_call.sent) = "NoteOff"

\* round(127 * clamp(m * slope, 0, 1)) for a magnitude m >= 0 and a slope > 0,
\* rounding halves away from zero
ExpectedControlValue(m, slope) ==
    LET x == F64Mul(m, slope)
    IN  IF x[2] = 0 \/ x[1] >= x[2] THEN 127
        ELSE (2 * 127 * x[1] + x[2]) \div (2 * x[2])

\* C2: in Control-Change mode a call that returns hands exactly one message
\* [0xB0, cc, v] to the output, with cc the 8-bit sum of base control number
\* and zone and v = round(127 * clamp(|normalized| * control_slope, 0, 1)),
\* which lies in 0..127; normalized = -0.5 with slope 20 gives v = 127.
C2_ControlChangeMessage ==
    (/\ midi_call.called
     /\ midi_config.method = "ControlChange"
     /\ midi_call.result # "Panic")
    => LET cfg == midi_config.control_change_config
       IN  /\ Len(midi_call.sent) = 1
           /\ midi_call.sent[1][1] = 176
           /\ midi_call.sent[1][2] = (cfg.base_control_number + midi_call.zone) % 256
           /\ midi_call.sent[1][3] =
                  ExpectedControlValue(F64Abs(midi_call.value), cfg.control_slope)
           /\ midi_call.sent[1][3] \in 0..127
           /\ (midi_call.value = <<0 - 1, 2>> /\ cfg.control_slope = <<20, 1>>)
              => midi_call.sent[1][3] = 127
           /\ note_states = midi_call.before

\* a control-change call with a value strictly between the ends of the range
\* has been made on a negative input
C2_Witness ==
    /\ midi_call.called
    /\ midi_config.method = "ControlChange"
    /\ midi_call.result = "Ok"
    /\ midi_call.value = <<0 - 1, 2>>
    /\ midi_config.control_change_config.control_slope = <<1, 10>>
    /\ midi_call.sent = << <<176, 1, 6>> >>

\* a note-mode call on a zone below 8 whose magnitude is above the threshold
\* handed a message to the output
NoteSounded ==
    /\ midi_call.called
    /\ midi_call.config.method = "Notes"
    /\ midi_call.zone < 8
    /\ F64Gt(F64Abs(midi_call.value), midi_call.config.note_config.threshold)
    /\ midi_call.sent # <<>>

\* clamp(x, 1, 127) of an integer, or of an infinite product
Clamp1To127(x) == IF x < 1 THEN 1 ELSE IF x > 127 THEN 127 ELSE x

\* magnitude * velocity_slope of the last call: <<numerator, denominator>>
VelocityProduct == F64Mul(F64Abs(midi_call.value), midi_call.config.note_config.velocity_slope)

\* the product rounded to the nearest integer, ties away from zero (the
\* product is not negative for the slopes in use)
ProductRounded ==
    IF VelocityProduct[2] = 0 THEN 128 * VelocityProduct[1]
    ELSE (2 * VelocityProduct[1] + VelocityProduct[2]) \div (2 * VelocityProduct[2])

\* C16: in Note mode, whenever magnitude > threshold, the velocity byte of the
\* emitted Note-On and the pressure byte of the emitted Key-Pressure equal
\* clamp(round(magnitude * velocity_slope), 1, 127).
C16_VelocityRounded ==
    NoteSounded
    => /\ midi_call.sent[1][1] \in {NOTE_ON_MSG, KEY_PRESSURE_MSG}
       /\ midi_call.sent[1][3] = Clamp1To127(ProductRounded)

\* min(base_note + intervals[zone mod len] + 12 * (zone div len), 127) for the
\* last call, in unbounded integers
ExpectedNote ==
    LET scale == intervals(midi_call.config.note_config.scale)
        sum == midi_call.config.note_config.base_note
               + scale[(midi_call.zone % Len(scale)) + 1]
               + 12 * (midi_call.zone \div Len(scale))
    IN  IF sum < 127 THEN sum ELSE 127

\* C17: for every scale, every 8-bit base_note and every zone in 0..7 the
\* note number of a note-mode call is
\* min(base_note + intervals[zone mod len] + 12 * (zone div len), 127); it never
\* exceeds 127 and the computation never fails.
C17_NoteNumber ==
    (midi_call.called /\ midi_call.config.method = "Notes" /\ midi_call.zone < 8)
    => /\ midi_call.result # "Panic"
       /\ midi_call.sent # <<>>
          => /\ midi_call.sent[1][2] = ExpectedNote
             /\ midi_call.sent[1][2] <= 127

\* C18: in Control-Change mode the controller number of the emitted message
\* is (base_control_number + zone) mod 256 for every 8-bit base_control_number
\* and every zone: an overflowing sum wraps and the call still hands its
\* message to the output.
C18_ControllerNumberWraps ==
    (midi_call.called /\ midi_call.config.method = "ControlChange")
    => /\ midi_call.result # "Panic"
       /\ Len(midi_call.sent) = 1
       /\ midi_call.sent[1][1] = CC_MSG
       /\ midi_call.sent[1][2] =
            (midi_call.config.control_change_config.base_control_number + midi_call.zone) % 256

\* C19: a translation call with a zone index of 8 or more hands no message to
\* the output, returns success and leaves every zone's note state unchanged.
C19_ZoneAboveSevenIgnored ==
    (midi_call.called /\ midi_call.zone >= 8)
    => /\ midi_call.sent = <<>>
       /\ midi_call.result = "Ok"
       /\ note_states = midi_call.before

(***************************************************************************)
(* The decoder on its own: every buffer of the bounded input set is        *)
(* decoded once.                                                           *)
(***************************************************************************)
\* bytes tried in the low and high byte of the timestamp and value fields, in
\* their middle bytes, in the zone byte, and after it
FieldBytes == {0, 128, 255}

MidBytes == {0, 255}

ZoneBytes == {0, 7, 8, 255}

TailBytes == {0, 255}

PacketByteChoices(i) ==
    IF i \in {1, 4, 5, 8} THEN FieldBytes
    ELSE IF i <= 8 THEN MidBytes
    ELSE IF i = 9 THEN ZoneBytes ELSE TailBytes

RECURSIVE BuffersOfLen(_)
BuffersOfLen(n) ==
    IF n = 0 THEN {<<>>}
    ELSE {Append(b, x) : b \in BuffersOfLen(n - 1), x \in PacketByteChoices(n)}

DecodeInputs == UNION {BuffersOfLen(n) : n \in 0..MaxPacketLen}

InitDecode ==
    /\ data \in DecodeInputs
    /\ decoded = NotCalled
    /\ ParseIdle
    /\ ProcessIdle
    /\ MidiIdle
    /\ LoopIdle
    /\ TaskIdle
    /\ MpeIdle
    /\ LinkIdle
    /\ ConfigIdle

Decode ==
    /\ decoded = NotCalled
    /\ decoded' = Sample_from_bytes(data)
    /\ UNCHANGED <<data, parseVars, processVars, midiVars, loopVars, configVars, taskVars, mpeVars, linkVars>>

NextDecode == Decode

SpecDecode == InitDecode /\ [][NextDecode]_vars

(***************************************************************************)
(* The zone-map parser on its own: main's zone-map choice is made once     *)
(* for every --map argument of the bounded input set.  An argument is      *)
(* written from a list of elements, each with its text and its meaning     *)
(* (the integer it denotes, if any).                                       *)
(***************************************************************************)
\* the decimal digits of a natural number
RECURSIVE Decimal(_)
Decimal(n) ==
    IF n < 10 THEN <<DigitChars[n + 1]>>
    ELSE Append(Decimal(n \div 10), DigitChars[(n % 10) + 1])

Element(text, isInt, val) == [text |-> text, int |-> isInt, val |-> val]

ElementKinds ==
    {"plain", "lead", "trail", "tab", "plus", "zero", "big", "minus",
     "empty", "blank", "alpha", "inner", "suffix"}

\* one way of writing an element for zone z
ElementOf(z, kind) ==
    CASE kind = "plain"  -> Element(Decimal(z), TRUE, z)
      [] kind = "lead"   -> Element(<<" ">> \o Decimal(z), TRUE, z)
      [] kind = "trail"  -> Element(Decimal(z) \o <<" ", " ">>, TRUE, z)
      [] kind = "tab"    -> Element(<<"\t">> \o Decimal(z) \o <<" ">>, TRUE, z)
      [] kind = "plus"   -> Element(<<"+">> \o Decimal(z), TRUE, z)
      [] kind = "zero"   -> Element(<<"0">> \o Decimal(z), TRUE, z)
      [] kind = "big"    -> Element(Decimal(z + NUM_ZONES), TRUE, z + NUM_ZONES)
      [] kind = "minus"  -> Element(<<"-">> \o Decimal(z + 1), TRUE, 0 - (z + 1))
      [] kind = "empty"  -> Element(<<>>, FALSE, 0)
      [] kind = "blank"  -> Element(<<" ">>, FALSE, 0)
      [] kind = "alpha"  -> Element(<<"x">>, FALSE, 0)
      [] kind = "inner"  -> Element(Decimal(z) \o <<" ">> \o Decimal(z), FALSE, 0)
      [] kind = "suffix" -> Element(Decimal(z) \o <<"x">>, FALSE, 0)

\* the arrays the arguments are written from: i |-> (a*i + b) mod NUM_ZONES, a
\* bijection for odd a and an array with repeats for even a, and the example
\* mapping of the --map help text
ExampleZoneMap == <<5, 6, 7, 2, 1, 3, 4, 0>>

AffineMaps ==
    {[k \in 1..NUM_ZONES |-> (a * (k - 1) + b) % NUM_ZONES] : a \in 0..3, b \in 0..(NUM_ZONES - 1)}

BaseMaps == AffineMaps \cup {ExampleZoneMap}

CountKinds == {"same", "drop", "extra", "trailing_comma"}

MapCaseOf(base, pos, kind, count) ==
    LET elems == [k \in 1..NUM_ZONES |->
                    ElementOf(base[k], IF k = pos THEN kind ELSE "plain")]
    IN  CASE count = "same" -> elems
          [] count = "drop" -> SubSeq(elems, 1, NUM_ZONES - 1)
          [] count = "extra" -> Append(elems, ElementOf(base[1], "plain"))
          [] count = "trailing_comma" -> Append(elems, ElementOf(0, "empty"))

MapCases ==
    {MapCaseOf(base, pos, kind, count) :
        base \in BaseMaps, pos \in 1..NUM_ZONES, kind \in ElementKinds, count \in CountKinds}
    \cup {<<>>}

\* the argument string: the elements' texts joined by commas
RECURSIVE Render(_)
Render(elems) ==
    IF elems = <<>> THEN <<>>
    ELSE IF Len(elems) = 1 THEN elems[1].text
    ELSE elems[1].text \o <<",">> \o Render(Tail(elems))

InitParse ==
    /\ data = <<>>
    /\ decoded = NotCalled
    /\ map_case \in MapCases
    /\ args_map \in {Some(Render(map_case))} \cup (IF map_case = <<>> THEN {NoString} ELSE {})
    /\ zone_map = ZoneMapNotParsed
    /\ ProcessIdle
    /\ MidiIdle
    /\ LoopIdle
    /\ TaskIdle
    /\ MpeIdle
    /\ LinkIdle
    /\ ConfigIdle

ParseArgs ==
    /\ zone_map = ZoneMapNotParsed
    /\ zone_map' = MainZoneMap(args_map)
    /\ UNCHANGED <<decodeVars, map_case, args_map, processVars, midiVars, loopVars, configVars, taskVars, mpeVars, linkVars>>

NextParse == ParseArgs

SpecParse == InitParse /\ [][NextParse]_vars

(***************************************************************************)
(* Claims about the zone-map parser (checked under SpecParse)              *)
(***************************************************************************)
\* the elements are NUM_ZONES integers, each in [0, NUM_ZONES), pairwise distinct
CaseIsPermutation(elems) ==
    /\ Len(elems) = NUM_ZONES
    /\ \A k \in 1..Len(elems) : elems[k].int /\ elems[k].val \in 0..(NUM_ZONES - 1)
    /\ \A j, k \in 1..Len(elems) : j # k => elems[j].val # elems[k].val

IdentityString ==
    <<"0", ",", "1", ",", "2", ",", "3", ",", "4", ",", "5", ",", "6", ",", "7">>

\* C10: the parser succeeds exactly on NUM_ZONES comma-separated integers
\* (surrounding whitespace allowed) that are pairwise distinct and in
\* [0, NUM_ZONES); the result holds the i-th element at index i and is a
\* bijection on [0, NUM_ZONES); "0,1,2,3,4,5,6,7" parses to the identity,
\* which is also the zone map when no string is given.
C10_ParserAcceptsExactlyPermutations ==
    zone_map # ZoneMapNotParsed =>
        IF args_map.some
        THEN /\ zone_map.err = "Ok" <=> CaseIsPermutation(map_case)
             /\ zone_map.err = "Ok" =>
                    /\ Len(zone_map.map) = NUM_ZONES
                    /\ \A k \in 1..NUM_ZONES : zone_map.map[k] = map_case[k].val
                    /\ \A z \in 0..(NUM_ZONES - 1) :
                            \E k \in 1..NUM_ZONES : zone_map.map[k] = z
             /\ args_map.v = IdentityString =>
                    zone_map = ZoneMapOk(<<0, 1, 2, 3, 4, 5, 6, 7>>)
        ELSE zone_map = ZoneMapOk(<<0, 1, 2, 3, 4, 5, 6, 7>>)

\* the example mapping, one element written with surrounding whitespace, was
\* parsed to the array it denotes
C10_Witness ==
    /\ args_map.some
    /\ \E k \in 1..Len(map_case) : Len(map_case[k].text) > 1
    /\ zone_map = ZoneMapOk(ExampleZoneMap)

\* the four reasons for which an argument written as elems is no permutation
WrongCount(elems) == Len(elems) # NUM_ZONES

NotNonNegativeInteger(elems) ==
    \E k \in 1..Len(elems) : ~elems[k].int \/ elems[k].val < 0

OutOfRange(elems) ==
    \E k \in 1..Len(elems) : elems[k].int /\ elems[k].val >= NUM_ZONES

Repeats(elems) ==
    \E j, k \in 1..Len(elems) :
        j # k /\ elems[j].int /\ elems[k].int /\ elems[j].val = elems[k].val

\* C11: the parser fails with InvalidZoneMap and returns no map when the
\* element count is not NUM_ZONES, when an element is not a non-negative
\* integer, when an element is >= NUM_ZONES, or when an element repeats.
C11_ParserRejects ==
    (/\ zone_map # ZoneMapNotParsed
     /\ args_map.some
     /\ \/ WrongCount(map_case)
        \/ NotNonNegativeInteger(map_case)
        \/ OutOfRange(map_case)
        \/ Repeats(map_case))
    => /\ zone_map.err = "InvalidZoneMap"
       /\ zone_map.map = <<>>

\* an argument of NUM_ZONES integers in range, one of them written twice, was
\* rejected
C11_Witness ==
    /\ args_map.some
    /\ ~WrongCount(map_case)
    /\ ~NotNonNegativeInteger(map_case)
    /\ ~OutOfRange(map_case)
    /\ Repeats(map_case)
    /\ zone_map.err = "InvalidZoneMap"

(***************************************************************************)
(* DildonicaZoneConfig::from_bytes on its own: every buffer of the bounded *)
(* input set is decoded once.  A buffer is written from a record: its      *)
(* encoding, or the encoding changed in one way                            *)
(***************************************************************************)
U32Values == {U32(1000), <<258, 772>>, <<32768, 0>>, <<65535, 65535>>}

ConfigRecords ==
    {DildonicaZoneConfig(en, mc, a, b, c, d) :
        en \in BOOLEAN, mc \in {0, 41, 255},
        a \in U32Values, b \in U32Values, c \in U32Values, d \in U32Values}

BytesCases == {"encoded", "padding", "enabled_other", "short", "long", "empty"}

\* the buffer of a case: the record's encoding, the encoding with other
\* padding bytes, with another non-zero byte for an enabled zone, without its
\* last byte, with one more byte, or no byte at all
BytesCase(record, case) ==
    LET enc == DildonicaZoneConfig_to_bytes(record)
    IN  CASE case = "encoded" -> enc
          [] case = "padding" -> [enc EXCEPT ![3] = 255, ![4] = 1]
          [] case = "enabled_other" -> [enc EXCEPT ![1] = IF record.enabled THEN 254 ELSE 0]
          [] case = "short" -> SubSeq(enc, 1, SIZE - 1)
          [] case = "long" -> Append(enc, 7)
          [] case = "empty" -> <<>>

InitRecord ==
    /\ data = <<>>
    /\ decoded = NotCalled
    /\ ParseIdle
    /\ ProcessIdle
    /\ MidiIdle
    /\ LoopIdle
    /\ TaskIdle
    /\ MpeIdle
    /\ LinkIdle
    /\ zone_configs = DefaultZoneConfigs
    /\ device_data = <<>>
    /\ config_call \in
          {[op |-> "input", case |-> case, configs |-> <<record>>,
            data |-> BytesCase(record, case), result |-> ConfigsErr("NotCalled")] :
                record \in ConfigRecords, case \in BytesCases}

\* DildonicaZoneConfig::from_bytes(&bytes)
FromBytes ==
    /\ config_call.op = "input"
    /\ config_call' = [config_call EXCEPT
                          !.op = "from_bytes",
                          !.result = DildonicaZoneConfig_from_bytes(config_call.data)]
    /\ UNCHANGED <<decodeVars, parseVars, processVars, midiVars, loopVars, taskVars, mpeVars, linkVars>>
    /\ UNCHANGED <<zone_configs, device_data>>

NextRecord == FromBytes

SpecRecord == InitRecord /\ [][NextRecord]_vars

\* C12: decoding the 20-byte encoding of a record gives the record back, in
\* all six fields, and the result is the same whatever bytes 2-3 hold.
C12_RecordRoundTrip ==
    (config_call.op = "from_bytes" /\ config_call.case \in {"encoded", "padding"})
    => /\ Len(config_call.data) = 20
       /\ config_call.result.err = "Ok"
       /\ \A f \in {"enabled", "midi_control", "cycle_count_begin", "cycle_count_end",
                     "comp_thresh_lo", "comp_thresh_hi"} :
              config_call.result.config[f] = config_call.configs[1][f]

\* a record whose fields all differ from the default, with a field beyond
\* 2^31, was decoded from an encoding with non-zero padding
C12_Witness ==
    /\ config_call.op = "from_bytes"
    /\ config_call.case = "padding"
    /\ config_call.data[3] = 255
    /\ config_call.result.err = "Ok"
    /\ config_call.result.config =
          DildonicaZoneConfig(FALSE, 255, <<32768, 0>>, <<258, 772>>,
                              <<65535, 65535>>, <<258, 772>>)

(***************************************************************************)
(* The configuration arms of the event loop on their own: the device holds *)
(* some bytes in its configuration characteristic; a read decodes them, a  *)
(* write replaces them                                                     *)
(***************************************************************************)
\* a record that varies with n in every field
ZoneConfigOf(n) ==
    DildonicaZoneConfig(n % 2 = 0, (n * 37) % 256,
                        <<n, 1000 + n>>, <<(n * 4099) % 65536, 65535 - n>>,
                        <<32768 + n, 0>>, <<65535, n>>)

\* arrays of records: the default, and arrays whose records all differ
ConfigArrays ==
    {DefaultZoneConfigs} \cup {[k \in 1..NUM_ZONES |-> ZoneConfigOf(base + k)] : base \in {0, 100}}

\* what the device may hold: the encoding of an array, bare or with other
\* padding, and buffers of other lengths
DeviceBuffers ==
    UNION {LET enc == write_zone_configs_data(configs)
           IN  {enc,
                [enc EXCEPT ![3] = 9, ![SIZE + 4] = 8],
                SubSeq(enc, 1, SIZE * NUM_ZONES - 1),
                SubSeq(enc, 1, SIZE * (NUM_ZONES - 1)),
                SubSeq(enc, 1, SIZE),
                Append(enc, 0),
                enc \o SubSeq(enc, 1, SIZE)} : configs \in ConfigArrays}
    \cup {<<>>}

\* buffers handed to the decoder of one record
RecordBuffers ==
    {[op |-> "input", case |-> case, configs |-> <<record>>,
      data |-> BytesCase(record, case), result |-> ConfigsErr("NotCalled")] :
          record \in {DildonicaZoneConfig_default, ZoneConfigOf(1)},
          case \in {"encoded", "short", "empty"}}

InitCodec ==
    /\ data = <<>>
    /\ decoded = NotCalled
    /\ ParseIdle
    /\ ProcessIdle
    /\ MidiIdle
    /\ LoopIdle
    /\ TaskIdle
    /\ MpeIdle
    /\ LinkIdle
    /\ zone_configs = DefaultZoneConfigs
    /\ device_data \in DeviceBuffers
    /\ config_call \in {NoConfigCall} \cup RecordBuffers

\* Some(new_configs) = config_rx.recv() => write_zone_configs(..); the device
\* keeps the bytes of a write it has acknowledged
ConfigWrite(new_configs, write_ok) ==
    /\ \E bytes \in {write_zone_configs_data(new_configs)} :
         /\ config_call' = [op |-> "write", case |-> "", configs |-> new_configs,
                            data |-> bytes,
                            result |-> write_zone_configs(new_configs, write_ok)]
         /\ device_data' = IF write_ok THEN bytes ELSE device_data
    /\ zone_configs' = IF write_zone_configs(new_configs, write_ok) = "Ok"
                       THEN new_configs ELSE zone_configs
    /\ UNCHANGED <<decodeVars, parseVars, processVars, midiVars, loopVars, taskVars, mpeVars, linkVars>>

\* Some(()) = config_read_rx.recv() => read_zone_configs(..)
ConfigRead(read_ok) ==
    /\ \E result \in {read_zone_configs(IF read_ok THEN TransportOk(device_data)
                                         ELSE TransportErr)} :
         /\ config_call' = [op |-> "read", case |-> IF read_ok THEN "answered" ELSE "failed",
                            configs |-> <<>>, data |-> device_data, result |-> result]
         /\ zone_configs' = IF result.err = "Ok" THEN result.configs ELSE zone_configs
    /\ UNCHANGED device_data
    /\ UNCHANGED <<decodeVars, parseVars, processVars, midiVars, loopVars, taskVars, mpeVars, linkVars>>

NextCodec ==
    \/ \E new_configs \in ConfigArrays \cup {zone_configs}, write_ok \in BOOLEAN :
            ConfigWrite(new_configs, write_ok)
    \/ \E read_ok \in BOOLEAN : ConfigRead(read_ok)
    \/ FromBytes

SpecCodec == InitCodec /\ [][NextCodec]_vars

\* C13: reading the configuration array succeeds only when the buffer holds
\* exactly 20 * NUM_ZONES bytes; any other length fails with DataTooShort and
\* yields no record; decoding one record from fewer than 20 bytes fails with
\* DataTooShort.
C13_ArrayLengthExact ==
    /\ (config_call.op = "read" /\ config_call.case = "answered")
       => /\ config_call.result.err = "Ok" <=> Len(config_call.data) = 20 * NUM_ZONES
          /\ Len(config_call.data) = 20 * NUM_ZONES
             => Len(config_call.result.configs) = NUM_ZONES
          /\ Len(config_call.data) # 20 * NUM_ZONES
             => /\ config_call.result.err = "DataTooShort"
                /\ config_call.result.configs = <<>>
    /\ (config_call.op = "from_bytes" /\ Len(config_call.data) < 20)
       => config_call.result.err = "DataTooShort"

\* a buffer of eight records and twenty more bytes was read and refused
C13_Witness ==
    /\ config_call.op = "read"
    /\ config_call.case = "answered"
    /\ Len(config_call.data) = 20 * NUM_ZONES + 20
    /\ config_call.result.err = "DataTooShort"
    /\ config_call.result.configs = <<>>
    /\ zone_configs = DefaultZoneConfigs

\* C14: writing an array of NUM_ZONES records sends one buffer of exactly
\* 20 * NUM_ZONES bytes without prefix; record i lies in bytes [20i, 20i+20)
\* as enabled (0 or 1), midi_control, two zero bytes and the four u32 fields
\* in little-endian order; reading that buffer returns the same records in
\* the same order.
C14_ArrayEncoding ==
    config_call.op = "write"
    => /\ Len(config_call.data) = 20 * NUM_ZONES
       /\ \A k \in 1..Len(config_call.data) : config_call.data[k] \in 0..255
       /\ \A i \in 0..(NUM_ZONES - 1) :
            LET r == config_call.configs[i + 1]
                b(k) == config_call.data[20 * i + k + 1]
                word(k) == <<b(k + 2) + 256 * b(k + 3), b(k) + 256 * b(k + 1)>>
            IN  /\ b(0) = IF r.enabled THEN 1 ELSE 0
                /\ b(1) = r.midi_control
                /\ b(2) = 0
                /\ b(3) = 0
                /\ word(4) = r.cycle_count_begin
                /\ word(8) = r.cycle_count_end
                /\ word(12) = r.comp_thresh_lo
                /\ word(16) = r.comp_thresh_hi
       /\ read_zone_configs(TransportOk(config_call.data)) = ConfigsOk(config_call.configs)

\* an array of eight different records was written and acknowledged
C14_Witness ==
    /\ config_call.op = "write"
    /\ config_call.result = "Ok"
    /\ config_call.configs = [k \in 1..NUM_ZONES |-> ZoneConfigOf(100 + k)]
    /\ device_data = config_call.data
    /\ zone_configs = config_call.configs

(***************************************************************************)
(* The exponential normalizer on its own: averages built with one alpha of *)
(* [0, 1] and updated through process_sample under the identity map        *)
(***************************************************************************)
AverageAlphas == {<<0, 1>>, <<1, 1>>, <<1, 2>>, <<1, 10>>}

AverageSamples ==
    {SampleOk(1000, z, v) : z \in {0, 1}, v \in {None, Some(1), Some(2), Some(0 - 2)}}

InitAverage ==
    /\ data = <<>>
    /\ decoded = NotCalled
    /\ map_case = <<>>
    /\ args_map = NoString
    /\ zone_map = ZoneMapOk(DefaultZoneMap)
    /\ zone_averages \in {[k \in 1..NUM_ZONES |-> ExponentialAverage_new(alpha)] :
                             alpha \in AverageAlphas}
    /\ processed = NoProcessed
    /\ readings = [k \in 1..NUM_ZONES |-> 0]
    /\ MidiIdle
    /\ LoopIdle
    /\ TaskIdle
    /\ MpeIdle
    /\ LinkIdle
    /\ ConfigIdle

\* process_sample(sample, &mut zone_averages, &zone_map), at most MaxUpdates
\* readings a zone
NormalizeSample(sample) ==
    /\ readings[RemapZone(zone_map.map, sample.zone) + 1] < MaxUpdates
    /\ \E ps \in {process_sample(sample, zone_averages, zone_map.map)} :
           /\ zone_averages' = ps.zone_averages
           /\ processed' = Some(ps.processed)
           /\ readings' = ReadingsAfter(readings, sample, ps.processed.zone)
    /\ decoded' = sample
    /\ UNCHANGED <<data, parseVars, midiVars, loopVars, configVars, taskVars, mpeVars, linkVars>>

NextAverage == \E sample \in AverageSamples : NormalizeSample(sample)

SpecAverage == InitAverage /\ [][NextAverage]_vars

\* C15: an average is absent before its first update; the first update(x)
\* sets it to x; every later update(x) sets it to average*(1-alpha) + x*alpha,
\* which is x when alpha = 1 and the average itself when alpha = 0.
C15_AverageUpdate ==
    [][/\ \A k \in 1..NUM_ZONES :
            readings[k] = 0 => ~ExponentialAverage_get_average(zone_averages[k]).some
       /\ decoded'.value.some
          => LET x == F64Int(decoded'.value.v)
                 old == zone_averages[decoded'.zone + 1]
                 new == ExponentialAverage_get_average(zone_averages'[decoded'.zone + 1])
                 avg == old.current_average.v
                 alpha == old.alpha
             IN  /\ new.some
                 /\ ~old.current_average.some => new.v = x
                 /\ old.current_average.some
                    => /\ new.v = F64Add(F64Mul(avg, F64Sub(<<1, 1>>, alpha)), F64Mul(x, alpha))
                       /\ alpha = <<1, 1>> => new.v = x
                       /\ alpha = <<0, 1>> => new.v = avg]_vars

\* with alpha = 0 a zone has had three readings, the last one 2, and its
\* average is still the first one, -2
C15_Witness ==
    /\ zone_averages[1].alpha = <<0, 1>>
    /\ readings[1] = 3
    /\ decoded.zone = 0
    /\ decoded.value = Some(2)
    /\ ExponentialAverage_get_average(zone_averages[1]) = Some(<<0 - 2, 1>>)

(***************************************************************************)
(* process_sample on its own: direct calls with arbitrary zone maps,       *)
(* malformed ones included                                                 *)
(***************************************************************************)
ProcessMaps ==
    {ExampleZoneMap}
    \cup {[k \in 1..NUM_ZONES |-> (a * (k - 1) + b) % NUM_ZONES] : a \in 0..3, b \in 0..1}

ProcessValues == {None, Some(500), Some(0 - 999)}

ProcessSamples ==
    {SampleOk(1000, z, v) : z \in 0..(NUM_ZONES - 1), v \in ProcessValues}

InitProcess ==
    /\ data = <<>>
    /\ decoded = NotCalled
    /\ map_case = <<>>
    /\ args_map = NoString
    /\ zone_map \in {ZoneMapOk(m) : m \in ProcessMaps}
    /\ ProcessIdle
    /\ MidiIdle
    /\ LoopIdle
    /\ TaskIdle
    /\ MpeIdle
    /\ LinkIdle
    /\ ConfigIdle

\* let processed_sample = process_sample(sample, &mut zone_averages, &zone_map);
ProcessSample(sample) ==
    /\ calls < MaxCalls
    /\ \E ps \in {process_sample(sample, zone_averages, zone_map.map)} :
           /\ zone_averages' = ps.zone_averages
           /\ processed' = Some(ps.processed)
           /\ readings' = ReadingsAfter(readings, sample, ps.processed.zone)
    /\ decoded' = sample
    /\ calls' = calls + 1
    /\ UNCHANGED <<data, parseVars, midiVars, tx_queue, loop_state, configVars, taskVars, mpeVars, linkVars>>

NextProcess == \E sample \in ProcessSamples : ProcessSample(sample)

SpecProcess == InitProcess /\ [][NextProcess]_vars

\* C20: a sample without a reading gives value_raw 0.0 and value_normalized
\* 0.0 and leaves every zone's baseline as it was; a sample with a reading
\* changes no baseline but that of its own logical zone, which is present
\* afterwards; a baseline that is present is never absent again.
C20_BaselineFrame ==
    [][/\ processed'.some
       /\ ~decoded'.value.some
          => /\ processed'.v.value_raw = <<0, 1>>
             /\ processed'.v.value_normalized = <<0, 1>>
             /\ zone_averages' = zone_averages
       /\ decoded'.value.some
          => /\ \A k \in 1..NUM_ZONES :
                   k # processed'.v.zone + 1 => zone_averages'[k] = zone_averages[k]
             /\ ExponentialAverage_get_average(zone_averages'[processed'.v.zone + 1]).some
       /\ \A k \in 1..NUM_ZONES :
            ExponentialAverage_get_average(zone_averages[k]).some
            => ExponentialAverage_get_average(zone_averages'[k]).some]_vars

\* after a reading of -999 on one zone, a sample without a reading on another
\* zone was processed: the baseline is still -999 and still the only one
C20_Witness ==
    /\ calls = 2
    /\ ~decoded.value.some
    /\ processed.v.value_raw = <<0, 1>>
    /\ processed.v.value_normalized = <<0, 1>>
    /\ \E k \in 1..NUM_ZONES :
         /\ k # processed.v.zone + 1
         /\ ExponentialAverage_get_average(zone_averages[k]) = Some(<<0 - 999, 1>>)
         /\ \A j \in 1..NUM_ZONES \ {k} :
              ~ExponentialAverage_get_average(zone_averages[j]).some

IsBijection(m) == \A z \in 0..(NUM_ZONES - 1) : \E k \in 1..Len(m) : m[k] = z

\* C6: the logical zone of a processed sample is the first position of the
\* map that holds the sample's physical zone; for a bijective map the map
\* sends it back to the physical zone and no other physical zone has the
\* same logical zone; when the physical zone does not occur in the map the
\* logical zone is the physical zone.
C6_RemapFirstPosition ==
    (processed.some /\ decoded.err = "Ok")
    => LET m == zone_map.map
           p == decoded.zone
           r == processed.v.zone
       IN  /\ (\E k \in 1..Len(m) : m[k] = p)
              => /\ r \in 0..(Len(m) - 1)
                 /\ m[r + 1] = p
                 /\ \A j \in 1..r : m[j] # p
           /\ (\A k \in 1..Len(m) : m[k] # p) => r = p
           /\ IsBijection(m)
              => /\ m[r + 1] = p
                 /\ \A q \in 0..(NUM_ZONES - 1) : q # p => m[r + 1] # q

\* both cases have happened: a zone found at a position other than itself in
\* a map with repeats, and (in another run) a zone the map does not hold
C6_Witness ==
    /\ processed.some
    /\ decoded.err = "Ok"
    /\ ~IsBijection(zone_map.map)
    /\ \A k \in 1..NUM_ZONES : zone_map.map[k] # decoded.zone
    /\ processed.v.zone = decoded.zone
    /\ calls = 2

(***************************************************************************)
(* The pipeline: main parses the zone map and the event loop handles the   *)
(* sensor's notifications; the presentation layer drains the channel and   *)
(* edits the shared configuration                                          *)
(***************************************************************************)
Packet(timestamp, value, zone) ==
    i32_to_le_bytes(timestamp) \o i32_to_le_bytes(value) \o <<zone>>

ExamplePacket == Packet(1000, 500, 3)

\* the notifications' payloads: readings on one zone, a packet without a
\* reading, a short packet and a packet with an invalid zone
Packets ==
    {ExamplePacket, Packet(1001, 1, 3), Packet(1002, 0 - 999, 3), Packet(1003, 0, 5),
     SubSeq(ExamplePacket, 1, 8), Packet(1004, 500, 8)}

\* the --map arguments: none, the example mapping, a mapping with a repeat
MapArguments ==
    {<<>>,
     MapCaseOf(ExampleZoneMap, 1, "plain", "same"),
     MapCaseOf([k \in 1..NUM_ZONES |-> 0], 1, "plain", "same")}

Init ==
    /\ data = <<>>
    /\ decoded = NotCalled
    /\ map_case \in MapArguments
    /\ args_map = IF map_case = <<>> THEN NoString ELSE Some(Render(map_case))
    /\ zone_map = ZoneMapNotParsed
    /\ ProcessIdle
    /\ LoopIdle
    /\ TaskIdle
    /\ MpeIdle
    /\ LinkIdle
    /\ ConfigIdle
    /\ note_states = [k \in 1..8 |-> FALSE]
    /\ sounding = [k \in 1..8 |-> None]
    /\ midi_config \in LoadedMidiConfigs
    /\ midi_call = NoCall
    /\ scenario = ScenarioStart
    /\ checked_build \in BOOLEAN

\* main up to the event loop: an invalid --map ends the program
Start ==
    /\ loop_state = "starting"
    /\ zone_map' = MainZoneMap(args_map)
    /\ loop_state' = IF zone_map'.err = "Ok" THEN "running" ELSE "exited"
    /\ UNCHANGED <<decodeVars, map_case, args_map, processVars, midiVars, tx_queue, calls, configVars, taskVars, mpeVars, linkVars>>

\* the notification arm of the event loop, for a payload that does not decode
NotificationError(pkt) ==
    /\ Sample_from_bytes(pkt).err # "Ok"
    /\ data' = pkt
    /\ decoded' = Sample_from_bytes(pkt)
    /\ calls' = calls + 1
    /\ UNCHANGED <<parseVars, processVars, midiVars, tx_queue, loop_state, configVars, taskVars, mpeVars, linkVars>>

\* the notification arm of the event loop, for a payload that decodes: the
\* sample is processed, translated and sent to the channel; a panic in the
\* translator ends the task
NotificationSample(pkt, send_ok) ==
    /\ Sample_from_bytes(pkt).err = "Ok"
    /\ data' = pkt
    /\ decoded' = Sample_from_bytes(pkt)
    /\ calls' = calls + 1
    /\ readings[RemapZone(zone_map.map, Sample_from_bytes(pkt).zone) + 1] < MaxReadings
    /\ \E ps \in {process_sample(Sample_from_bytes(pkt), zone_averages, zone_map.map)} :
         /\ zone_averages' = ps.zone_averages
         /\ processed' = Some(ps.processed)
         /\ readings' = ReadingsAfter(readings, Sample_from_bytes(pkt), ps.processed.zone)
         /\ \E out \in {MidiProcessor_process_sample(note_states, ps.processed.zone,
                             ps.processed.value_normalized, midi_config,
                             send_ok, checked_build)} :
              /\ note_states' = out.note_states
              /\ sounding' = SoundingAfter(sounding, ps.processed.zone, out.sent)
              /\ midi_call' = [called |-> TRUE, config |-> midi_config,
                               zone |-> ps.processed.zone,
                               value |-> ps.processed.value_normalized,
                               before |-> note_states, sent |-> out.sent,
                               result |-> out.result]
              /\ scenario' = ScenarioAfter(scenario, ps.processed.zone,
                                           ps.processed.value_normalized, midi_config, out)
              /\ IF out.result = "Panic"
                 THEN loop_state' = "panicked" /\ tx_queue' = tx_queue
                 ELSE loop_state' = loop_state /\ tx_queue' = Append(tx_queue, ps.processed)
    /\ UNCHANGED <<parseVars, midi_config, checked_build, configVars, taskVars, mpeVars, linkVars>>

\* Some(data) = notification_stream.next() => { ... }
Notification(pkt, send_ok) ==
    /\ loop_state = "running"
    /\ calls < MaxPackets
    /\ \/ NotificationError(pkt)
       \/ NotificationSample(pkt, send_ok)

\* DildonicaApp::update: while let Ok(processed_sample) = self.rx.try_recv()
GuiUpdate ==
    /\ tx_queue # <<>>
    /\ tx_queue' = <<>>
    /\ UNCHANGED <<decodeVars, parseVars, processVars, midiVars, loop_state, calls, configVars, taskVars, mpeVars, linkVars>>

Next ==
    \/ Start
    \/ \E pkt \in Packets, send_ok \in BOOLEAN : Notification(pkt, send_ok)
    \/ GuiUpdate
    \/ \E m \in MethodChoices : SetMethod(m)

Spec == Init /\ [][Next]_vars

\* C7 as stated: the packet {timestamp 1000, zone 3, value 500}, processed
\* with the map [5,6,7,2,1,3,4,0], gives a ProcessedSample with logical zone 4.
C7_ExampleRemapIsFour ==
    (data = ExamplePacket /\ zone_map.map = ExampleZoneMap /\ processed.some)
    => processed.v.zone = 4

\* C7, amended: the packet {timestamp 1000, zone 3, value 500}, processed with
\* the map [5,6,7,2,1,3,4,0], gives a ProcessedSample with logical zone 5, the
\* position of 3 in the map, and with the packet's timestamp and reading.
C7_ExampleRemap ==
    (data = ExamplePacket /\ zone_map.map = ExampleZoneMap)
    => /\ decoded = SampleOk(1000, 3, Some(500))
       /\ processed.some
       /\ processed.v.zone = 5
       /\ processed.v.timestamp = 1000
       /\ processed.v.value_raw = <<500, 1>>
       /\ ExampleZoneMap[processed.v.zone + 1] = 3

\* the example packet has been handled under the example map
C7_Witness ==
    /\ data = ExamplePacket
    /\ zone_map.map = ExampleZoneMap
    /\ decoded.err = "Ok"
    /\ processed.some
    /\ calls >= 1

\* C8: the first sample with a reading that a zone's normalizer receives has
\* value_normalized 0.0 and value_raw equal to the reading, whatever the
\* reading is.
C8_FirstSampleNormalizedZero ==
    (/\ decoded.err = "Ok"
     /\ decoded.value.some
     /\ processed.some
     /\ readings[processed.v.zone + 1] = 1)
    => /\ processed.v.value_normalized = <<0, 1>>
       /\ processed.v.value_raw = <<decoded.value.v, 1>>

\* a zone has received its first reading, a negative one, in the second or a
\* later packet
C8_Witness ==
    /\ decoded.err = "Ok"
    /\ decoded.value = Some(0 - 999)
    /\ processed.some
    /\ readings[processed.v.zone + 1] = 1
    /\ processed.v.value_raw = <<0 - 999, 1>>
    /\ calls >= 2

\* C9: every ProcessedSample's value_normalized is finite, and is 0.0 when the
\* zone's baseline is zero; no NaN or infinity is passed to the translator or
\* sent to the channel.
C9_NormalizedFinite ==
    /\ processed.some
       => /\ IsFinite(processed.v.value_normalized)
          /\ (decoded.err = "Ok"
               /\ zone_averages[processed.v.zone + 1].current_average = Some(<<0, 1>>))
             => processed.v.value_normalized = <<0, 1>>
    /\ midi_call.called => IsFinite(midi_call.value)
    /\ \A i \in 1..Len(tx_queue) : IsFinite(tx_queue[i].value_normalized)

\* C21: every successfully decoded Sample has a value that is absent or
\* strictly positive, and no negative value reaches the normalizer: the
\* averages and the raw value of a ProcessedSample are never negative.
C21_ValuePositive ==
    /\ decoded.err = "Ok" => (~decoded.value.some \/ decoded.value.v > 0)
    /\ processed.some => ~F64Gt(<<0, 1>>, processed.v.value_raw)
    /\ \A k \in 1..NUM_ZONES :
         ExponentialAverage_get_average(zone_averages[k]).some
         => ~F64Gt(<<0, 1>>, ExponentialAverage_get_average(zone_averages[k]).v)

(***************************************************************************)
(* The event loop as a task: tokio::select! over the notification stream   *)
(* and the two request channels.  An arm's body runs from the select to    *)
(* its end; it is cut at each await (tx.send, device.write, device.read),  *)
(* where the presentation layer and the device may act.                    *)
(***************************************************************************)
\* mpsc::channel(100) and mpsc::channel(10)
TX_CAPACITY == 100

CONFIG_CAPACITY == 10

\* mutant: the newest item of a queue is received first
recv_newest(queue) == [item |-> queue[Len(queue)], rest |-> SubSeq(queue, 1, Len(queue) - 1)]

\* Receiver::recv / Stream::next on a queue that is not empty: the oldest item
recv(queue) == [item |-> Head(queue), rest |-> Tail(queue)]

\* Sender::try_send: the item is queued unless the channel is full
try_send(queue, item, capacity) ==
    IF Len(queue) < capacity THEN Append(queue, item) ELSE queue

\* the payloads of the notifications: a reading, a payload that is too short
\* and one with an invalid zone; the n-th notification carries timestamp
\* 1000 + n
LoopPacketKinds == {"reading", "short", "invalid_zone"}

LoopPacket(kind, n) ==
    CASE kind = "reading" -> Packet(1000 + n, 500, 3)
      [] kind = "short" -> SubSeq(Packet(1000 + n, 500, 3), 1, 8)
      [] kind = "invalid_zone" -> Packet(1000 + n, 500, 8)

\* what the device holds at first: eight records, or one byte less
LoopDeviceBuffers ==
    LET enc == write_zone_configs_data([k \in 1..NUM_ZONES |-> ZoneConfigOf(k)])
    IN  {enc, SubSeq(enc, 1, SIZE * NUM_ZONES - 1)}

\* the state when the loop is entered: the zone map is parsed, the two reads
\* before the loop have set the shared configuration or failed
InitLoop ==
    /\ data = <<>>
    /\ decoded = NotCalled
    /\ map_case = <<>>
    /\ args_map = NoString
    /\ zone_map = ZoneMapOk(DefaultZoneMap)
    /\ ProcessIdle
    /\ MidiIdle
    /\ tx_queue = <<>>
    /\ loop_state = "running"
    /\ calls = 0
    /\ TaskIdle
    /\ MpeIdle
    /\ LinkIdle
    /\ device_data \in LoopDeviceBuffers
    /\ \E read_ok \in BOOLEAN :
         \E result \in {read_zone_configs(IF read_ok THEN TransportOk(device_data)
                                          ELSE TransportErr)} :
            zone_configs = IF result.err = "Ok" THEN result.configs ELSE DefaultZoneConfigs
    /\ config_call = NoConfigCall

\* mutant: the guard of the lock is still alive at the next await
with_lock_kept(locks, lock) == locks \cup {lock}

\* { let guard = mutex.lock().unwrap(); .. }: the lock is taken and its guard
\* is dropped at the end of the block or statement, before the next await
with_lock(locks, lock) == (locks \cup {lock}) \ {lock}

\* the device notifies: the payload joins the notification stream
Notify(kind) ==
    /\ stream_open
    /\ log.arrived < MaxArrivals
    /\ stream' = Append(stream, LoopPacket(kind, log.arrived + 1))
    /\ log' = [log EXCEPT !.arrived = @ + 1]
    /\ UNCHANGED <<decodeVars, parseVars, processVars, midiVars, loopVars, configVars, mpeVars, linkVars>>
    /\ UNCHANGED <<config_rx, config_read_rx, in_progress>>

\* the presentation layer edits the shared array in place (the checkbox of
\* the first zone is cleared)
EditZoneConfig ==
    /\ rx_open
    /\ "zone_configs" \notin held
    /\ zone_configs[1].enabled
    /\ zone_configs' = [zone_configs EXCEPT ![1].enabled = FALSE]
    /\ UNCHANGED <<decodeVars, parseVars, processVars, midiVars, loopVars, taskVars, mpeVars, linkVars>>
    /\ UNCHANGED <<device_data, config_call>>

\* "Write Config to Device": let _ = tx.try_send(*configs)
RequestWrite ==
    /\ rx_open
    /\ "zone_configs" \notin held
    /\ log.requests < MaxRequests
    /\ config_rx' = try_send(config_rx, zone_configs, CONFIG_CAPACITY)
    /\ log' = [log EXCEPT !.requests = @ + 1]
    /\ UNCHANGED <<decodeVars, parseVars, processVars, midiVars, loopVars, configVars, mpeVars, linkVars>>
    /\ UNCHANGED <<stream, config_read_rx, in_progress>>

\* "Read Config from Device": let _ = tx.try_send(())
RequestRead ==
    /\ rx_open
    /\ log.requests < MaxRequests
    /\ config_read_rx' = try_send(config_read_rx, "read", CONFIG_CAPACITY)
    /\ log' = [log EXCEPT !.requests = @ + 1]
    /\ UNCHANGED <<decodeVars, parseVars, processVars, midiVars, loopVars, configVars, mpeVars, linkVars>>
    /\ UNCHANGED <<stream, config_rx, in_progress>>

\* PlotApp::update: while let Ok(processed_sample) = self.rx.try_recv()
RECURSIVE Drain(_, _)
Drain(queue, received) ==
    IF queue = <<>> THEN received
    ELSE Drain(recv(queue).rest, Append(received, recv(queue).item.timestamp))

PlotAppUpdate ==
    /\ rx_open
    /\ tx_queue # <<>>
    /\ log' = [log EXCEPT !.received = Drain(tx_queue, @)]
    /\ tx_queue' = <<>>
    /\ UNCHANGED <<decodeVars, parseVars, processVars, midiVars, loop_state, calls, configVars, mpeVars, linkVars>>
    /\ UNCHANGED <<stream, config_rx, config_read_rx, in_progress>>

\* the select is reached: the task runs and no arm's body is under way
AtSelect == loop_state = "running" /\ in_progress = {}

\* mutant: a payload that does not decode ends the loop
SelectNotificationError_fatal(pkt) ==
    /\ Sample_from_bytes(pkt).err # "Ok"
    /\ loop_state' = "exited"
    /\ UNCHANGED <<parseVars, processVars, midiVars, tx_queue, configVars, mpeVars, linkVars>>
    /\ UNCHANGED <<config_rx, config_read_rx, in_progress, log>>

\* Err(e) => eprintln!("Error parsing sensor data: {}", e)
SelectNotificationError(pkt) ==
    /\ Sample_from_bytes(pkt).err # "Ok"
    /\ UNCHANGED <<parseVars, processVars, midiVars, tx_queue, loop_state, configVars, mpeVars, linkVars>>
    /\ UNCHANGED <<config_rx, config_read_rx, in_progress, log>>

\* mutant: the translator's error ends the loop, as with the ? operator
SelectNotificationSample_propagating(pkt, send_ok) ==
    /\ Sample_from_bytes(pkt).err = "Ok"
    /\ \E ps \in {process_sample(Sample_from_bytes(pkt), zone_averages, zone_map.map)} :
         /\ zone_averages' = ps.zone_averages
         /\ processed' = Some(ps.processed)
         /\ readings' = ReadingsAfter(readings, Sample_from_bytes(pkt), ps.processed.zone)
         /\ \E out \in {MidiProcessor_process_sample(note_states, ps.processed.zone,
                             ps.processed.value_normalized, midi_config,
                             send_ok, checked_build)} :
              /\ note_states' = out.note_states
              /\ sounding' = SoundingAfter(sounding, ps.processed.zone, out.sent)
              /\ midi_call' = [called |-> TRUE, config |-> midi_config,
                               zone |-> ps.processed.zone,
                               value |-> ps.processed.value_normalized,
                               before |-> note_states, sent |-> out.sent,
                               result |-> out.result]
              /\ log' = [log EXCEPT !.translated = Append(@, ps.processed.timestamp),
                                    !.failed = IF out.result = "Err"
                                               THEN Append(@, ps.processed.timestamp)
                                               ELSE @]
              /\ IF out.result \in {"Panic", "Err"}
                 THEN loop_state' = "panicked" /\ in_progress' = in_progress
                 ELSE loop_state' = loop_state /\ in_progress' = in_progress \cup {"packet"}
    /\ UNCHANGED <<parseVars, midi_config, scenario, checked_build, tx_queue, configVars, mpeVars, stream_open, rx_open>>
    /\ UNCHANGED <<config_rx, config_read_rx>>
    /\ held' = with_lock(held, "app_config")

\* Ok(sample) => process_sample, the translation under the configuration
\* lock, and tx.send(processed_sample) up to its await
SelectNotificationSample(pkt, send_ok) ==
    /\ Sample_from_bytes(pkt).err = "Ok"
    /\ \E ps \in {process_sample(Sample_from_bytes(pkt), zone_averages, zone_map.map)} :
         /\ zone_averages' = ps.zone_averages
         /\ processed' = Some(ps.processed)
         /\ readings' = ReadingsAfter(readings, Sample_from_bytes(pkt), ps.processed.zone)
         /\ \E out \in {MidiProcessor_process_sample(note_states, ps.processed.zone,
                             ps.processed.value_normalized, midi_config,
                             send_ok, checked_build)} :
              /\ note_states' = out.note_states
              /\ sounding' = SoundingAfter(sounding, ps.processed.zone, out.sent)
              /\ midi_call' = [called |-> TRUE, config |-> midi_config,
                               zone |-> ps.processed.zone,
                               value |-> ps.processed.value_normalized,
                               before |-> note_states, sent |-> out.sent,
                               result |-> out.result]
              /\ log' = [log EXCEPT !.translated = Append(@, ps.processed.timestamp),
                                    !.failed = IF out.result = "Err"
                                               THEN Append(@, ps.processed.timestamp)
                                               ELSE @]
              /\ IF out.result = "Panic"
                 THEN loop_state' = "panicked" /\ in_progress' = in_progress
                 ELSE loop_state' = loop_state /\ in_progress' = in_progress \cup {"packet"}
    /\ UNCHANGED <<parseVars, midi_config, scenario, checked_build, tx_queue, configVars, mpeVars, stream_open, rx_open>>
    /\ UNCHANGED <<config_rx, config_read_rx>>
    /\ held' = with_lock(held, "app_config")

\* Some(data) = notification_stream.next() => match Sample::from_bytes(..)
SelectNotification(send_ok) ==
    /\ AtSelect
    /\ stream # <<>>
    /\ stream' = recv(stream).rest
    /\ data' = recv(stream).item
    /\ decoded' = Sample_from_bytes(recv(stream).item)
    /\ calls' = calls + 1
    /\ \/ SelectNotificationError(recv(stream).item)
       \/ SelectNotificationSample(recv(stream).item, send_ok)

\* tx.send(processed_sample).await completes: the channel has room
ForwardSample ==
    /\ rx_open
    /\ loop_state = "running"
    /\ "packet" \in in_progress
    /\ Len(tx_queue) < TX_CAPACITY
    /\ tx_queue' = Append(tx_queue, processed.v)
    /\ log' = [log EXCEPT !.forwarded = Append(@, processed.v.timestamp)]
    /\ in_progress' = in_progress \ {"packet"}
    /\ UNCHANGED <<decodeVars, parseVars, processVars, midiVars, loop_state, calls, configVars, mpeVars, linkVars>>
    /\ UNCHANGED <<stream, config_rx, config_read_rx>>

\* mutant: the write starts wherever the task is
SelectConfigWrite_spawned ==
    /\ loop_state = "running"
    /\ "write" \notin in_progress
    /\ config_rx # <<>>
    /\ config_rx' = recv(config_rx).rest
    /\ config_call' = [op |-> "write", case |-> "pending", configs |-> recv(config_rx).item,
                       data |-> write_zone_configs_data(recv(config_rx).item),
                       result |-> "Pending"]
    /\ in_progress' = in_progress \cup {"write"}
    /\ log' = [log EXCEPT !.transfers = @ + 1]
    /\ UNCHANGED <<decodeVars, parseVars, processVars, midiVars, loopVars, mpeVars, linkVars>>
    /\ UNCHANGED <<zone_configs, device_data, stream, config_read_rx>>

\* Some(new_configs) = config_rx.recv() => write_zone_configs(..) up to the
\* await of device.write
SelectConfigWrite ==
    /\ AtSelect
    /\ config_rx # <<>>
    /\ config_rx' = recv(config_rx).rest
    /\ config_call' = [op |-> "write", case |-> "pending", configs |-> recv(config_rx).item,
                       data |-> write_zone_configs_data(recv(config_rx).item),
                       result |-> "Pending"]
    /\ in_progress' = in_progress \cup {"write"}
    /\ log' = [log EXCEPT !.transfers = @ + 1]
    /\ UNCHANGED <<decodeVars, parseVars, processVars, midiVars, loopVars, mpeVars, linkVars>>
    /\ UNCHANGED <<zone_configs, device_data, stream, config_read_rx>>

\* mutant: the shared array is replaced whether the write succeeded or not
WriteComplete_always(write_ok) ==
    /\ loop_state = "running"
    /\ "write" \in in_progress
    /\ config_call' = [config_call EXCEPT
                          !.case = "done",
                          !.result = write_zone_configs(config_call.configs, write_ok)]
    /\ device_data' = IF write_ok THEN config_call.data ELSE device_data
    /\ zone_configs' = config_call.configs
    /\ in_progress' = in_progress \ {"write"}
    /\ UNCHANGED <<decodeVars, parseVars, processVars, midiVars, loopVars, mpeVars, stream_open, rx_open>>
    /\ UNCHANGED <<stream, config_rx, config_read_rx, log>>
    /\ held' = with_lock(held, "zone_configs")

\* device.write(..).await returns; Ok(()) => *zone_configs = new_configs
WriteComplete(write_ok) ==
    /\ loop_state = "running"
    /\ "write" \in in_progress
    /\ config_call' = [config_call EXCEPT
                          !.case = "done",
                          !.result = write_zone_configs(config_call.configs, write_ok)]
    /\ device_data' = IF write_ok THEN config_call.data ELSE device_data
    /\ zone_configs' = IF write_zone_configs(config_call.configs, write_ok) = "Ok"
                       THEN config_call.configs ELSE zone_configs
    /\ in_progress' = in_progress \ {"write"}
    /\ UNCHANGED <<decodeVars, parseVars, processVars, midiVars, loopVars, mpeVars, stream_open, rx_open>>
    /\ UNCHANGED <<stream, config_rx, config_read_rx, log>>
    /\ held' = IF write_zone_configs(config_call.configs, write_ok) = "Ok"
                THEN with_lock(held, "zone_configs") ELSE held

\* Some(()) = config_read_rx.recv() => read_zone_configs(..) up to the await
\* of device.read
SelectConfigRead ==
    /\ AtSelect
    /\ config_read_rx # <<>>
    /\ config_read_rx' = recv(config_read_rx).rest
    /\ config_call' = [op |-> "read", case |-> "pending", configs |-> <<>>,
                       data |-> <<>>, result |-> "Pending"]
    /\ in_progress' = in_progress \cup {"read"}
    /\ log' = [log EXCEPT !.transfers = @ + 1]
    /\ UNCHANGED <<decodeVars, parseVars, processVars, midiVars, loopVars, mpeVars, linkVars>>
    /\ UNCHANGED <<zone_configs, device_data, stream, config_rx>>

\* mutant: a read that fails is issued again
ReadComplete_retrying(read_ok) ==
    /\ loop_state = "running"
    /\ "read" \in in_progress
    /\ \E result \in {read_zone_configs(IF read_ok THEN TransportOk(device_data)
                                         ELSE TransportErr)} :
         /\ config_call' = [op |-> "read", case |-> IF read_ok THEN "answered" ELSE "failed",
                            configs |-> <<>>, data |-> device_data, result |-> result]
         /\ zone_configs' = IF result.err = "Ok" THEN result.configs ELSE zone_configs
         /\ in_progress' = IF result.err = "Ok" THEN in_progress \ {"read"} ELSE in_progress
         /\ log' = IF result.err = "Ok" THEN log ELSE [log EXCEPT !.transfers = @ + 1]
    /\ UNCHANGED <<decodeVars, parseVars, processVars, midiVars, loopVars, mpeVars, stream_open, rx_open>>
    /\ UNCHANGED <<device_data, stream, config_rx, config_read_rx>>
    /\ held' = IF read_ok /\ read_zone_configs(TransportOk(device_data)).err = "Ok"
                THEN with_lock(held, "zone_configs") ELSE held

\* device.read(..).await returns; Ok(configs) => *zone_configs = configs
ReadComplete(read_ok) ==
    /\ loop_state = "running"
    /\ "read" \in in_progress
    /\ \E result \in {read_zone_configs(IF read_ok THEN TransportOk(device_data)
                                         ELSE TransportErr)} :
         /\ config_call' = [op |-> "read", case |-> IF read_ok THEN "answered" ELSE "failed",
                            configs |-> <<>>, data |-> device_data, result |-> result]
         /\ zone_configs' = IF result.err = "Ok" THEN result.configs ELSE zone_configs
    /\ in_progress' = in_progress \ {"read"}
    /\ UNCHANGED <<decodeVars, parseVars, processVars, midiVars, loopVars, mpeVars, stream_open, rx_open>>
    /\ UNCHANGED <<device_data, stream, config_rx, config_read_rx, log>>
    /\ held' = IF read_ok /\ read_zone_configs(TransportOk(device_data)).err = "Ok"
                THEN with_lock(held, "zone_configs") ELSE held

NextLoop ==
    \/ \E kind \in LoopPacketKinds : Notify(kind)
    \/ EditZoneConfig
    \/ RequestWrite
    \/ RequestRead
    \/ PlotAppUpdate
    \/ \E send_ok \in BOOLEAN : SelectNotification(send_ok)
    \/ ForwardSample
    \/ SelectConfigWrite
    \/ \E write_ok \in BOOLEAN : WriteComplete(write_ok)
    \/ SelectConfigRead
    \/ \E read_ok \in BOOLEAN : ReadComplete(read_ok)

SpecLoop == InitLoop /\ [][NextLoop]_vars

(***************************************************************************)
(* SpecEnd: the event loop with the ends of its collaborators: the         *)
(* notification stream can end, and the presentation layer can be closed,  *)
(* which drops the receiver of the channel and the senders of the two      *)
(* configuration channels and lets main return.                            *)
(***************************************************************************)
\* notification_stream.next() gives None from now on: the pattern
\* Some(data) does not match and the branch is disabled at every select
StreamEnds ==
    /\ stream_open
    /\ stream_open' = FALSE
    /\ UNCHANGED <<decodeVars, parseVars, processVars, midiVars, loopVars, configVars, taskVars, mpeVars>>
    /\ UNCHANGED <<rx_open, held>>

\* eframe::run_native returns: PlotApp is dropped with rx, config_tx and
\* config_read_tx; the samples in the channel are dropped with the receiver
CloseReceiver ==
    /\ rx_open
    /\ rx_open' = FALSE
    /\ tx_queue' = <<>>
    /\ UNCHANGED <<decodeVars, parseVars, processVars, midiVars, loop_state, calls, configVars, taskVars, mpeVars>>
    /\ UNCHANGED <<stream_open, held>>

\* mutant: the error of the send is ignored and the loop goes on
ForwardFails_ignored ==
    /\ ~rx_open
    /\ loop_state = "running"
    /\ "packet" \in in_progress
    /\ in_progress' = in_progress \ {"packet"}
    /\ UNCHANGED <<decodeVars, parseVars, processVars, midiVars, loopVars, configVars, mpeVars, linkVars>>
    /\ UNCHANGED <<stream, config_rx, config_read_rx, log>>

\* tx.send(processed_sample).await.is_err(): println!("Exiting"); break
ForwardFails ==
    /\ ~rx_open
    /\ loop_state = "running"
    /\ "packet" \in in_progress
    /\ loop_state' = "exited"
    /\ in_progress' = in_progress \ {"packet"}
    /\ UNCHANGED <<decodeVars, parseVars, processVars, midiVars, tx_queue, calls, configVars, mpeVars, linkVars>>
    /\ UNCHANGED <<stream, config_rx, config_read_rx, log>>

\* main returns after the presentation layer: the runtime is dropped and the
\* task is cancelled at the await where it is suspended
RuntimeShutdown ==
    /\ ~rx_open
    /\ loop_state = "running"
    /\ loop_state' = "cancelled"
    /\ in_progress' = {}
    /\ UNCHANGED <<decodeVars, parseVars, processVars, midiVars, tx_queue, calls, configVars, mpeVars, linkVars>>
    /\ UNCHANGED <<stream, config_rx, config_read_rx, log>>

\* select! with every branch disabled and no else branch panics
SelectAllDisabled ==
    /\ AtSelect
    /\ ~stream_open
    /\ stream = <<>>
    /\ ~rx_open
    /\ config_rx = <<>>
    /\ config_read_rx = <<>>
    /\ loop_state' = "panicked"
    /\ UNCHANGED <<decodeVars, parseVars, processVars, midiVars, tx_queue, calls, configVars, taskVars, mpeVars, linkVars>>

NextEnd ==
    \/ NextLoop
    \/ StreamEnds
    \/ CloseReceiver
    \/ ForwardFails
    \/ RuntimeShutdown
    \/ SelectAllDisabled

SpecEnd == InitLoop /\ [][NextEnd]_vars

\* the loop with a presentation layer that sends no configuration request
NextWait ==
    \/ \E kind \in LoopPacketKinds : Notify(kind)
    \/ PlotAppUpdate
    \/ \E send_ok \in BOOLEAN : SelectNotification(send_ok)
    \/ ForwardSample
    \/ StreamEnds
    \/ CloseReceiver
    \/ ForwardFails
    \/ RuntimeShutdown
    \/ SelectAllDisabled

\* the steps the task can take once the stream is ended and empty
LoopStep ==
    \/ ForwardSample
    \/ ForwardFails
    \/ SelectAllDisabled

\* every step of the task changes its position
loopPosition == <<loop_state, in_progress, calls>>

\* the runtime runs the task whenever it can take a step, and the process
\* ends once the presentation layer is closed; the notification branch needs
\* no condition where the stream is ended and empty: it is disabled for good
SpecWait == InitLoop /\ [][NextWait]_vars /\ WF_loopPosition(LoopStep) /\ WF_loopPosition(RuntimeShutdown)

(***************************************************************************)
(* SpecHeadless: the loop in headless mode.  main keeps rx, config_tx and  *)
(* config_read_tx alive while it awaits the task, and nothing receives     *)
(* from rx: the channel only fills.  The study begins after the loop has   *)
(* forwarded n readings; the log and the call count start with the study.  *)
(***************************************************************************)
\* the readings forwarded before the study: the channel has one place left,
\* or none
HeadlessStarts == {TX_CAPACITY - 1, TX_CAPACITY}

\* the loop's state before its first packet
HeadlessFresh ==
    [data |-> <<>>, decoded |-> NotCalled, zone_averages |-> FreshAverages,
     processed |-> NoProcessed, readings |-> [k \in 1..NUM_ZONES |-> 0],
     note_states |-> [k \in 1..8 |-> FALSE], sounding |-> [k \in 1..8 |-> None],
     midi_call |-> NoCall, tx_queue |-> <<>>]

\* one turn of the loop on the n-th reading of zone 3: decoded, processed,
\* translated and forwarded into a channel that nothing drains
HeadlessTurn(before, n) ==
    LET pkt == Packet(1000 - TX_CAPACITY + n, 500, 3)
        ps == process_sample(Sample_from_bytes(pkt), before.zone_averages, DefaultZoneMap)
        out == MidiProcessor_process_sample(before.note_states, ps.processed.zone,
                   ps.processed.value_normalized, DefaultMidiConfig, TRUE, TRUE)
    IN  [data |-> pkt, decoded |-> Sample_from_bytes(pkt),
         zone_averages |-> ps.zone_averages,
         processed |-> Some(ps.processed),
         readings |-> ReadingsAfter(before.readings, Sample_from_bytes(pkt), ps.processed.zone),
         note_states |-> out.note_states,
         sounding |-> SoundingAfter(before.sounding, ps.processed.zone, out.sent),
         midi_call |-> [called |-> TRUE, config |-> DefaultMidiConfig,
                        zone |-> ps.processed.zone,
                        value |-> ps.processed.value_normalized,
                        before |-> before.note_states, sent |-> out.sent,
                        result |-> out.result],
         tx_queue |-> Append(before.tx_queue, ps.processed)]

\* the turns on the readings first..last in order, by halves
RECURSIVE HeadlessTurns(_, _, _)
HeadlessTurns(before, first, last) ==
    IF first > last THEN before
    ELSE IF first = last THEN HeadlessTurn(before, first)
    ELSE CHOOSE after \in {HeadlessTurns(half, (first + last) \div 2 + 1, last) :
                             half \in {HeadlessTurns(before, first, (first + last) \div 2)}} : TRUE

\* the loop's state after its first n turns
HeadlessAfter(n) == HeadlessTurns(HeadlessFresh, 1, n)

InitHeadless ==
    /\ \E n \in HeadlessStarts :
         \E h \in {HeadlessAfter(n)} :
            /\ data = h.data
            /\ decoded = h.decoded
            /\ zone_averages = h.zone_averages
            /\ processed = h.processed
            /\ readings = h.readings
            /\ note_states = h.note_states
            /\ sounding = h.sounding
            /\ midi_call = h.midi_call
            /\ tx_queue = h.tx_queue
    /\ map_case = <<>>
    /\ args_map = NoString
    /\ zone_map = ZoneMapOk(DefaultZoneMap)
    /\ midi_config = DefaultMidiConfig
    /\ scenario = ScenarioStart
    /\ checked_build = TRUE
    /\ loop_state = "running"
    /\ calls = 0
    /\ TaskIdle
    /\ MpeIdle
    /\ LinkIdle
    /\ device_data \in LoopDeviceBuffers
    /\ \E read_ok \in BOOLEAN :
         \E result \in {read_zone_configs(IF read_ok THEN TransportOk(device_data)
                                          ELSE TransportErr)} :
            zone_configs = IF result.err = "Ok" THEN result.configs ELSE DefaultZoneConfigs
    /\ config_call = NoConfigCall

NextHeadless ==
    \/ \E kind \in LoopPacketKinds : Notify(kind)
    \/ \E send_ok \in BOOLEAN : SelectNotification(send_ok)
    \/ ForwardSample

\* the runtime completes the send as soon as the channel has room
SpecHeadless == InitHeadless /\ [][NextHeadless]_vars /\ WF_loopPosition(ForwardSample)

\* C31: a forward of a sample that waits for room in the channel eventually
\* completes or ends the loop, in headless mode too.
C31_ForwardCompletes ==
    ("packet" \in in_progress) ~> ("packet" \notin in_progress \/ loop_state # "running")

\* C32: once the notification stream has ended, the event loop exits.
\* (the loop meets the end where next() gives None: the stream is ended and
\* its packets are taken)
C32_StreamEndExits == (~stream_open /\ stream = <<>>) ~> (loop_state # "running")

\* C33: with the receiver closed, the forward of a sample fails, adds nothing
\* to the channel and ends the loop; after its end the loop translates no
\* packet, takes none from the stream and starts no device transfer.
C33_ClosedReceiverEndsLoop ==
    [][/\ (/\ ~rx_open
           /\ "packet" \in in_progress
           /\ "packet" \notin in_progress'
           /\ loop_state' # "cancelled")
          => /\ loop_state' = "exited"
             /\ tx_queue' = tx_queue
             /\ log'.forwarded = log.forwarded
       /\ loop_state # "running"
          => /\ loop_state' = loop_state
             /\ calls' = calls
             /\ Len(stream') >= Len(stream)
             /\ log'.translated = log.translated
             /\ log'.transfers = log.transfers
             /\ zone_configs' = zone_configs
             /\ in_progress' = in_progress]_vars

\* the forward of the first packet found the receiver closed: the loop has
\* exited with the second packet and a write request waiting
C33_Witness ==
    /\ ~rx_open
    /\ loop_state = "exited"
    /\ log.translated = <<1001>>
    /\ log.forwarded = <<>>
    /\ Len(stream) = 1
    /\ Len(config_rx) = 1
    /\ log.transfers = 0

\* C22: a packet that fails to decode is skipped: no baseline is updated, no
\* translation call is made and no message sent, no note state changes, no
\* ProcessedSample is forwarded, and the loop is back at its select, where it
\* handles the events that follow.
C22_MalformedPacketSkipped ==
    [][(calls' = calls + 1 /\ decoded'.err # "Ok")
       => /\ decoded'.err \in {"DataTooShort", "InvalidZone"}
          /\ zone_averages' = zone_averages
          /\ processed' = processed
          /\ note_states' = note_states
          /\ midi_call' = midi_call
          /\ tx_queue' = tx_queue
          /\ log'.translated = log.translated
          /\ log'.forwarded = log.forwarded
          /\ loop_state' = "running"
          /\ in_progress' = {}]_vars

\* the first packet had an invalid zone and the second has been translated
\* and forwarded
C22_Witness ==
    /\ calls = 2
    /\ log.translated = <<1002>>
    /\ log.forwarded = <<1002>>
    /\ zone_averages[4].current_average = Some(<<500, 1>>)

\* C23: in the event loop a configuration write or read that fails (transport
\* error, wrong length) leaves the shared array as it was; a write that
\* succeeds sets the array to the array that was written, a read that
\* succeeds sets it to the eight records decoded from the device's bytes; no
\* other step of the loop changes the array.
C23_ConfigReplacedWhole ==
    [][LET write_ends == "write" \in in_progress /\ "write" \notin in_progress'
           read_ends == "read" \in in_progress /\ "read" \notin in_progress'
       IN  /\ write_ends
              => /\ config_call'.result \in {"Ok", "BleError"}
                 /\ config_call'.result = "Ok" => zone_configs' = config_call.configs
                 /\ config_call'.result # "Ok" => zone_configs' = zone_configs
           /\ read_ends
              => /\ config_call'.result.err \in {"Ok", "BleError", "DataTooShort"}
                 /\ config_call'.result.err = "Ok"
                    => /\ Len(zone_configs') = NUM_ZONES
                       /\ \A i \in 1..NUM_ZONES :
                            zone_configs'[i] =
                              DildonicaZoneConfig_from_bytes(
                                SubSeq(device_data, 20 * (i - 1) + 1, 20 * i)).config
                 /\ config_call'.result.err # "Ok" => zone_configs' = zone_configs
           /\ ((in_progress' # in_progress \/ calls' # calls) /\ ~write_ends /\ ~read_ends)
              => zone_configs' = zone_configs]_vars

\* a write was requested, the array was edited, and the write failed: the
\* array keeps the edit
C23_Witness ==
    /\ config_call.op = "write"
    /\ config_call.result = "BleError"
    /\ in_progress = {}
    /\ config_call.configs[1].enabled
    /\ ~zone_configs[1].enabled
    /\ \A i \in 2..NUM_ZONES : zone_configs[i] = config_call.configs[i]

\* C24: a translation call whose MIDI send fails does not stop the packet:
\* the step ends with the loop running and the packet's ProcessedSample
\* waiting to be forwarded, and the forward appends that sample to the
\* channel whatever the call returned.
C24_SendFailureIgnored ==
    [][/\ (log'.translated # log.translated /\ midi_call'.result = "Err")
          => /\ loop_state' = "running"
             /\ in_progress' = {"packet"}
             /\ processed'.some
             /\ processed'.v.timestamp = log'.translated[Len(log'.translated)]
             /\ log'.failed = Append(log.failed, processed'.v.timestamp)
       /\ ("packet" \in in_progress /\ "packet" \notin in_progress')
          => /\ tx_queue' = Append(tx_queue, processed.v)
             /\ loop_state' = "running"
             /\ in_progress' = {}]_vars

\* the send failed for the first packet; it was forwarded, and the second
\* packet was translated and forwarded after it
C24_Witness ==
    /\ log.failed = <<1001>>
    /\ log.translated = <<1001, 1002>>
    /\ log.forwarded = <<1001, 1002>>
    /\ midi_call.result = "Ok"
    /\ Len(midi_call.sent) = 1

NoRepeat(seq) == \A i, j \in 1..Len(seq) : seq[i] = seq[j] => i = j

\* C25: every packet is taken from the stream once (taken + waiting =
\* arrived), is handed to the translator at most once and forwarded at most
\* once, only after its translation; a failed send is not repeated; every
\* request taken from a configuration channel starts exactly one device
\* transfer (transfers + waiting requests = requests).
C25_AtMostOnce ==
    /\ calls + Len(stream) = log.arrived
    /\ Len(log.translated) <= calls
    /\ NoRepeat(log.translated)
    /\ NoRepeat(log.forwarded)
    /\ NoRepeat(log.received)
    /\ \A i \in 1..Len(log.failed) : \E j \in 1..Len(log.translated) : log.translated[j] = log.failed[i]
    /\ \A i \in 1..Len(log.forwarded) : \E j \in 1..Len(log.translated) : log.translated[j] = log.forwarded[i]
    /\ \A i \in 1..Len(log.received) : \E j \in 1..Len(log.forwarded) : log.forwarded[j] = log.received[i]
    /\ log.transfers + Len(config_rx) + Len(config_read_rx) = log.requests

\* the only packet's send failed and the only request's read failed: one
\* translation, one forward, one transfer, and the loop is back at the select
\* with nothing left to do
C25_Witness ==
    /\ log.arrived = 1
    /\ log.failed = <<1001>>
    /\ log.translated = <<1001>>
    /\ log.forwarded = <<1001>>
    /\ log.requests = 1
    /\ log.transfers = 1
    /\ config_call.op = "read"
    /\ config_call.case = "failed"
    /\ AtSelect
    /\ stream = <<>>

\* C29: at most one reaction of the event loop (packet, write, read) is in
\* progress after every step; a reaction, a device transfer or a packet's
\* processing starts only when none is in progress.
C29_OneReactionAtATime ==
    [][/\ Cardinality(in_progress') <= 1
       /\ in_progress' \subseteq {"packet", "write", "read"}
       /\ (in_progress' \ in_progress # {}) => in_progress = {}
       /\ (log'.transfers # log.transfers) => in_progress = {}
       /\ (calls' # calls) => in_progress = {}
       /\ (log'.translated # log.translated) => (in_progress = {} /\ in_progress' \subseteq {"packet"})]_vars

\* a write is in progress while a packet and a read request are waiting
C29_Witness ==
    /\ in_progress = {"write"}
    /\ config_call.case = "pending"
    /\ stream # <<>>
    /\ config_read_rx # <<>>

StrictlyIncreasing(seq) == \A i, j \in 1..Len(seq) : i < j => seq[i] < seq[j]

IsPrefix(short, long) == Len(short) <= Len(long) /\ short = SubSeq(long, 1, Len(short))

\* C30: the n-th packet to arrive carries timestamp 1000 + n.  The
\* timestamps of the translation calls, of the samples in the channel and of
\* the samples the presentation side received are strictly increasing and
\* all belong to packets that arrived; the forwards are a prefix of the
\* translations, at most one behind (translation before forward); the
\* samples received followed by those waiting in the channel are the forwards.
C30_ArrivalOrder ==
    /\ StrictlyIncreasing(log.translated)
    /\ StrictlyIncreasing(log.forwarded)
    /\ StrictlyIncreasing(log.received)
    /\ \A i \in 1..Len(log.translated) : log.translated[i] \in 1001..(1000 + log.arrived)
    /\ IsPrefix(log.forwarded, log.translated)
    /\ Len(log.translated) - Len(log.forwarded) = (IF "packet" \in in_progress THEN 1 ELSE 0)
    /\ log.forwarded = log.received \o [i \in 1..Len(tx_queue) |-> tx_queue[i].timestamp]

\* two packets arrived, were translated and forwarded, and were received in
\* the order of arrival
C30_Witness ==
    /\ log.arrived = 2
    /\ log.translated = <<1001, 1002>>
    /\ log.received = <<1001, 1002>>
    /\ tx_queue = <<>>
    /\ log.failed = <<>>

(***************************************************************************)
(* SpecMpe: the calls of the MPE keyboard.  The keyboard starts after a    *)
(* number of press/release pairs of one note, which leaves both maps empty *)
(* and the cursor anywhere in the pool.                                    *)
(***************************************************************************)
KeyNotes == {60, 61}

KeyVelocities == {100}

KeyPressures == {0, 50}

\* the keyboard after pairs more press/release pairs of note 60
RECURSIVE Cycled(_, _)
Cycled(kb, pairs) ==
    IF pairs = 0 THEN kb
    ELSE Cycled(handle_key_release(handle_key_press(kb, 60, 100, 0).keyboard, 60, 0).keyboard,
                pairs - 1)

InitMpe ==
    /\ data = <<>>
    /\ decoded = NotCalled
    /\ ParseIdle
    /\ ProcessIdle
    /\ MidiIdle
    /\ LoopIdle
    /\ TaskIdle
    /\ LinkIdle
    /\ ConfigIdle
    /\ \E pairs \in 0..(Len(MPEKeyboard_new.member_channels) - 1) :
         /\ keyboard = Cycled(MPEKeyboard_new, pairs)
         /\ key_log = [presses |-> pairs, calls |-> 0]
    /\ key_call = NoKeyCall

KeyPress(note_number, velocity, initial_pressure) ==
    /\ key_log.calls < MaxKeyCalls
    /\ \E out \in {handle_key_press(keyboard, note_number, velocity, initial_pressure)} :
         /\ keyboard' = out.keyboard
         /\ key_call' = [op |-> "press", note_number |-> note_number, data |-> velocity,
                         initial_pressure |-> initial_pressure, before |-> keyboard,
                         channel |-> out.channel, sent |-> out.sent]
    /\ key_log' = [presses |-> key_log.presses + 1, calls |-> key_log.calls + 1]
    /\ UNCHANGED <<decodeVars, parseVars, processVars, midiVars, loopVars, configVars, taskVars, linkVars>>

KeyRelease(note_number, release_velocity) ==
    /\ key_log.calls < MaxKeyCalls
    /\ \E out \in {handle_key_release(keyboard, note_number, release_velocity)} :
         /\ keyboard' = out.keyboard
         /\ key_call' = [op |-> "release", note_number |-> note_number,
                         data |-> release_velocity, initial_pressure |-> 0,
                         before |-> keyboard, channel |-> out.channel, sent |-> out.sent]
    /\ key_log' = [key_log EXCEPT !.calls = @ + 1]
    /\ UNCHANGED <<decodeVars, parseVars, processVars, midiVars, loopVars, configVars, taskVars, linkVars>>

KeyPressureChange(note_number, new_pressure) ==
    /\ key_log.calls < MaxKeyCalls
    /\ \E out \in {handle_key_pressure_change(keyboard, note_number, new_pressure)} :
         /\ keyboard' = out.keyboard
         /\ key_call' = [op |-> "pressure", note_number |-> note_number,
                         data |-> new_pressure, initial_pressure |-> 0,
                         before |-> keyboard, channel |-> out.channel, sent |-> out.sent]
    /\ key_log' = [key_log EXCEPT !.calls = @ + 1]
    /\ UNCHANGED <<decodeVars, parseVars, processVars, midiVars, loopVars, configVars, taskVars, linkVars>>

NextMpe ==
    \/ \E note_number \in KeyNotes, velocity \in KeyVelocities, initial_pressure \in KeyPressures :
         KeyPress(note_number, velocity, initial_pressure)
    \/ \E note_number \in KeyNotes : KeyRelease(note_number, 0)
    \/ \E note_number \in KeyNotes : KeyPressureChange(note_number, 70)

SpecMpe == InitMpe /\ [][NextMpe]_vars

\* C26: the k-th key press is assigned pool[(k-1) mod pool_size] (index from
\* 0) and leaves the cursor at k mod pool_size, below pool_size; after it
\* the note maps to that channel and the channel to the note; the messages
\* are Note-On with the given velocity on that channel, followed by one
\* channel-aftertouch on that channel exactly when initial_pressure > 0.
C26_RoundRobin ==
    /\ keyboard.next_channel_index \in 0..(Len(keyboard.member_channels) - 1)
    /\ key_call.op = "press"
       => LET pool == MPEKeyboard_new.member_channels
              channel == pool[((key_log.presses - 1) % Len(pool)) + 1]
          IN  /\ key_call.channel = Some(channel)
              /\ channel \in 2..15
              /\ keyboard.next_channel_index = key_log.presses % Len(pool)
              /\ key_call.note_number \in DOMAIN keyboard.active_notes
              /\ keyboard.active_notes[key_call.note_number] = channel
              /\ channel \in DOMAIN keyboard.channel_notes
              /\ keyboard.channel_notes[channel] = key_call.note_number
              /\ key_call.sent =
                   << <<144 + channel, key_call.note_number, key_call.data>> >>
                   \o (IF key_call.initial_pressure > 0
                       THEN << <<208 + channel, key_call.initial_pressure>> >>
                       ELSE <<>>)

\* the fifteenth press wraps to the first channel of the pool, with an
\* initial pressure
C26_Witness ==
    /\ key_call.op = "press"
    /\ key_log.presses = 15
    /\ key_call.before.next_channel_index = 0
    /\ key_call.channel = Some(2)
    /\ key_call.sent = << <<146, 61, 100>>, <<210, 50>> >>
    /\ keyboard.channel_notes[15] = 60

\* C27: a release of a note with an assigned channel emits one Note-On with
\* velocity 0 on that channel and leaves the cursor as it was; afterwards
\* neither map mentions the note or the channel, as a key or as a value.
C27_ReleaseFreesNoteAndChannel ==
    (key_call.op = "release" /\ key_call.note_number \in DOMAIN key_call.before.active_notes)
    => LET channel == key_call.before.active_notes[key_call.note_number]
       IN  /\ key_call.sent = << <<144 + channel, key_call.note_number, 0>> >>
           /\ keyboard.next_channel_index = key_call.before.next_channel_index
           /\ key_call.note_number \notin DOMAIN keyboard.active_notes
           /\ channel \notin DOMAIN keyboard.channel_notes
           /\ \A n \in DOMAIN keyboard.active_notes : keyboard.active_notes[n] # channel
           /\ \A c \in DOMAIN keyboard.channel_notes :
                keyboard.channel_notes[c] # key_call.note_number

\* C28: a release or a pressure change of a note without an assigned channel
\* emits nothing and leaves the keyboard as it was; a pressure change of an
\* active note emits one channel-aftertouch on the note's channel and leaves
\* the keyboard as it was.
C28_UnknownNoteNoOp ==
    /\ (/\ key_call.op \in {"release", "pressure"}
        /\ key_call.note_number \notin DOMAIN key_call.before.active_notes)
       => (key_call.sent = <<>> /\ keyboard = key_call.before)
    /\ (/\ key_call.op = "pressure"
        /\ key_call.note_number \in DOMAIN key_call.before.active_notes)
       => /\ key_call.sent =
               << <<208 + key_call.before.active_notes[key_call.note_number], key_call.data>> >>
          /\ keyboard = key_call.before

\* a pressure change of note 61 while only note 60 is active
C28_Witness ==
    /\ key_call.op = "pressure"
    /\ key_call.note_number = 61
    /\ DOMAIN key_call.before.active_notes = {60}
    /\ key_call.sent = <<>>
    /\ keyboard = key_call.before

\* C38: for every zone map, maps with repeated entries included, and every
\* decoded sample, the logical zone of the ProcessedSample is the index of
\* the first entry equal to the sample's zone, or the sample's zone when no
\* entry is equal to it, and lies in 0..NUM_ZONES-1; the timestamp is the
\* sample's timestamp.
C38_ZoneInRange ==
    processed.some
    => /\ processed.v.zone \in 0..(NUM_ZONES - 1)
       /\ processed.v.timestamp = decoded.timestamp
       /\ \/ /\ zone_map.map[processed.v.zone + 1] = decoded.zone
             /\ \A j \in 1..processed.v.zone : zone_map.map[j] # decoded.zone
          \/ /\ \A j \in 1..NUM_ZONES : zone_map.map[j] # decoded.zone
             /\ processed.v.zone = decoded.zone

\* a map whose entries are all 1: physical zone 5 is not in it and keeps its
\* number, and its reading updates the average of zone 5
C38_Witness ==
    /\ \A j \in 1..NUM_ZONES : zone_map.map[j] = 1
    /\ decoded.zone = 5
    /\ decoded.value = Some(500)
    /\ processed.some
    /\ processed.v.zone = 5
    /\ processed.v.timestamp = 1000
    /\ ExponentialAverage_get_average(zone_averages[6]).some

\* C39: the two maps of the keyboard are mutually inverse: active_notes maps
\* n to c exactly when channel_notes maps c to n; hence no two active notes
\* have the same channel and every channel entry belongs to an active note.
C39_MapsInverse ==
    /\ \A n \in DOMAIN keyboard.active_notes :
         /\ keyboard.active_notes[n] \in DOMAIN keyboard.channel_notes
         /\ keyboard.channel_notes[keyboard.active_notes[n]] = n
    /\ \A c \in DOMAIN keyboard.channel_notes :
         /\ keyboard.channel_notes[c] \in DOMAIN keyboard.active_notes
         /\ keyboard.active_notes[keyboard.channel_notes[c]] = c

(***************************************************************************)
(* SpecScale: note-mode translation calls above the threshold on the zones *)
(* 0..7, under every scale and several base notes                          *)
(***************************************************************************)
ScaleBaseNotes == {0, 60, 111, 113}

ScaleConfigs ==
    {[DefaultMidiConfig EXCEPT !.method = "Notes",
                               !.note_config.scale = scale,
                               !.note_config.base_note = base_note] :
        scale \in all_scales, base_note \in ScaleBaseNotes}

InitScale ==
    /\ data = <<>>
    /\ decoded = NotCalled
    /\ ParseIdle
    /\ ProcessIdle
    /\ LoopIdle
    /\ TaskIdle
    /\ MpeIdle
    /\ LinkIdle
    /\ ConfigIdle
    /\ note_states = [k \in 1..8 |-> FALSE]
    /\ sounding = [k \in 1..8 |-> None]
    /\ midi_config \in ScaleConfigs
    /\ midi_call = NoCall
    /\ scenario = ScenarioOff
    /\ checked_build \in BOOLEAN

\* midi_processor.process_sample(.., zone, 0.2, &config) with the message accepted
ScaleCall(zone) ==
    /\ calls < MaxCalls
    /\ \E out \in {MidiProcessor_process_sample(note_states, zone, <<1, 5>>, midi_config,
                                                TRUE, checked_build)} :
           /\ note_states' = out.note_states
           /\ sounding' = SoundingAfter(sounding, zone, out.sent)
           /\ midi_call' = [called |-> TRUE, config |-> midi_config,
                            zone |-> zone, value |-> <<1, 5>>,
                            before |-> note_states, sent |-> out.sent,
                            result |-> out.result]
    /\ calls' = calls + 1
    /\ UNCHANGED <<midi_config, scenario, checked_build, tx_queue, loop_state>>
    /\ UNCHANGED <<decodeVars, parseVars, processVars, configVars, taskVars, mpeVars, linkVars>>

NextScale == \E zone \in 0..7 : ScaleCall(zone)

SpecScale == InitScale /\ [][NextScale]_vars

\* C40: with base_note <= 111, map_zone_to_note is strictly increasing over
\* the zones 0..7 under every scale, and of two successive calls the one on
\* the higher zone sends the higher note number: the messages of distinct
\* zones never carry the same note.
C40_NotesStrictlyIncreasing ==
    [][midi_config.note_config.base_note <= 111
       => /\ \A z1, z2 \in 0..7 :
               z1 < z2
               => map_zone_to_note(midi_config.note_config.scale,
                                   midi_config.note_config.base_note, z1, checked_build)
                  < map_zone_to_note(midi_config.note_config.scale,
                                     midi_config.note_config.base_note, z2, checked_build)
          /\ (midi_call.called /\ midi_call'.called)
             => /\ Len(midi_call.sent) = 1
                /\ Len(midi_call'.sent) = 1
                /\ midi_call.zone < midi_call'.zone
                   => midi_call.sent[1][2] < midi_call'.sent[1][2]
                /\ midi_call.zone > midi_call'.zone
                   => midi_call.sent[1][2] > midi_call'.sent[1][2]]_vars

\* base note 111 under the pentatonic scale: zone 6 sounds, and zone 7 gets
\* note 127
C40_Witness ==
    /\ midi_config.note_config.base_note = 111
    /\ midi_config.note_config.scale = "Pentatonic"
    /\ calls = 2
    /\ midi_call.zone = 7
    /\ midi_call.sent = << <<NOTE_ON_MSG, 127, 20>> >>
    /\ note_states[7]
    /\ note_states[8]

\* C37: a translation call whose send fails leaves every note state as it
\* was (a failed Note-On leaves the zone OFF, a failed Note-Off leaves it
\* ON); a note state changes only in a call that returns Ok after sending
\* Note-On (OFF to ON) or Note-Off (ON to OFF), and only for the call's zone.
C37_FailedSendKeepsState ==
    midi_call.called
    => /\ midi_call.result = "Err" => note_states = midi_call.before
       /\ \A k \in 1..8 : k # midi_call.zone + 1 => note_states[k] = midi_call.before[k]
       /\ note_states # midi_call.before
          => /\ midi_call.result = "Ok"
             /\ midi_call.config.method = "Notes"
             /\ \/ /\ SentKind(midi_call.sent) = "NoteOn"
                   /\ ~midi_call.before[midi_call.zone + 1]
                   /\ note_states[midi_call.zone + 1]
                \/ /\ SentKind(midi_call.sent) = "NoteOff"
                   /\ midi_call.before[midi_call.zone + 1]
                   /\ ~note_states[midi_call.zone + 1]

\* a Note-Off whose send failed: the zone is still ON, next to another zone
\* that is ON
C37_Witness ==
    /\ midi_call.called
    /\ midi_call.result = "Err"
    /\ SentKind(midi_call.sent) = "NoteOff"
    /\ midi_call.zone = 0
    /\ note_states[1]
    /\ note_states[8]

\* C36: in a call on a zone whose note is sounding, with magnitude at or
\* below the threshold and the message accepted, Note-Off is sent and the
\* zone is OFF afterwards, under either output method.
C36_NoteOffBelowThreshold ==
    (/\ midi_call.called
     /\ midi_call.zone < 8
     /\ midi_call.before[midi_call.zone + 1]
     /\ ~F64Gt(F64Abs(midi_call.value), midi_call.config.note_config.threshold)
     /\ midi_call.result = "Ok")
    => /\ SentKind(midi_call.sent) = "NoteOff"
       /\ ~note_states[midi_call.zone + 1]

\* C35: a Note-Off or a Key-Pressure sent for a zone carries the note number
\* of the last Note-On sent for that zone, whatever edits of the
\* configuration the presentation layer made in between.
C35_NoteOffMatchesNoteOn ==
    (midi_call.called /\ SentKind(midi_call.sent) \in {"NoteOff", "KeyPressure"})
    => /\ sounding[midi_call.zone + 1].some
       /\ midi_call.sent[1][2] = sounding[midi_call.zone + 1].v

C3_ShortBufferFails ==
    (decoded # NotCalled /\ Len(data) < 9) => decoded = SampleErr("DataTooShort")

\* an 8-byte buffer of non-zero bytes was decoded and refused as too short
C3_Witness ==
    /\ Len(data) = 8
    /\ data[8] = 255
    /\ decoded.err = "DataTooShort"

\* C4: with at least 9 bytes, decoding fails with InvalidZone when byte 8 is
\* >= NUM_ZONES and succeeds when byte 8 is < NUM_ZONES.
C4_ZoneCheck ==
    (decoded # NotCalled /\ Len(data) >= 9) =>
        /\ data[9] >= NUM_ZONES => decoded = SampleErr("InvalidZone")
        /\ data[9] < NUM_ZONES => decoded.err = "Ok"

\* a buffer whose zone byte is exactly NUM_ZONES was decoded and refused
C4_Witness ==
    /\ Len(data) >= 9
    /\ data[9] = NUM_ZONES
    /\ decoded.err = "InvalidZone"

\* C5: for a valid buffer, re-encoding the decoded timestamp gives bytes 0-3,
\* the decoded zone is byte 8, and the value is absent exactly when bytes 4-7
\* are all zero (and otherwise re-encodes to bytes 4-7).
C5_DecodeRoundTrip ==
    decoded.err = "Ok" =>
        /\ decoded.timestamp \in -2147483647 - 1 .. 2147483647
        /\ i32_to_le_bytes(decoded.timestamp) = SubSeq(data, 1, 4)
        /\ decoded.zone = data[9]
        /\ decoded.value.some = FALSE <=> SubSeq(data, 5, 8) = <<0, 0, 0, 0>>
        /\ decoded.value.some => i32_to_le_bytes(decoded.value.v) = SubSeq(data, 5, 8)

\* a valid buffer with a negative timestamp and a value whose low byte is zero
\* was decoded to a Sample that has a reading
C5_Witness ==
    /\ decoded.err = "Ok"
    /\ decoded.timestamp < 0
    /\ data[5] = 0
    /\ decoded.value.some
    /\ decoded.zone = 7

====
